---- MODULE Spec2Model ----
(***************************************************************************)
(* Collega AI: the intent routing and tool-orchestration core              *)
(* (services/agent_service.py), the data-provider tools it dispatches to   *)
(* (services/sectors_tools.py, services/sectors_service.py) and the chat   *)
(* turn handler of the UI (ui/chat_interface.py).                          *)
(*                                                                         *)
(* Text is modelled as a sequence of one-character strings, so that        *)
(* lower(), upper(), substring containment, split() and the regular        *)
(* expressions of the source are computed character by character.          *)
(***************************************************************************)
EXTENDS Integers, Sequences, FiniteSets, TLC

(***************************************************************************)
(* Python values.                                                          *)
(***************************************************************************)
\* Python's None where a string is expected.  Strings are sequences of
\* one-character strings, so this one-element sequence is no string.
None == <<"None">>

LowerAlpha ==
  << "a","b","c","d","e","f","g","h","i","j","k","l","m",
     "n","o","p","q","r","s","t","u","v","w","x","y","z" >>

UpperAlpha ==
  << "A","B","C","D","E","F","G","H","I","J","K","L","M",
     "N","O","P","Q","R","S","T","U","V","W","X","Y","Z" >>

DigitChars == << "0","1","2","3","4","5","6","7","8","9" >>

IndexIn(seq, c) == CHOOSE i \in 1..Len(seq) : seq[i] = c

isupper(c) == \E i \in 1..Len(UpperAlpha) : UpperAlpha[i] = c

islower(c) == \E i \in 1..Len(LowerAlpha) : LowerAlpha[i] = c

isdigit(c) == \E i \in 1..Len(DigitChars) : DigitChars[i] = c

\* \w of the re module: a letter, a digit or the underscore
IsWordChar(c) == isupper(c) \/ islower(c) \/ isdigit(c) \/ c = "_"

lower_char(c) == IF isupper(c) THEN LowerAlpha[IndexIn(UpperAlpha, c)] ELSE c

upper_char(c) == IF islower(c) THEN UpperAlpha[IndexIn(LowerAlpha, c)] ELSE c

\* str.lower()
lower(s) == [i \in 1..Len(s) |-> lower_char(s[i])]

\* str.upper()
upper(s) == [i \in 1..Len(s) |-> upper_char(s[i])]

\* k in s (substring containment)
Contains(s, k) ==
  \E i \in 0..(Len(s) - Len(k)) : \A j \in 1..Len(k) : s[i + j] = k[j]

\* any(word in s for word in words)
ContainsAny(s, words) == \E n \in 1..Len(words) : Contains(s, words[n])

\* index of the first space of s, Len(s) + 1 when there is none
FirstSpace(s) ==
  IF \E i \in 1..Len(s) : s[i] = " "
  THEN CHOOSE i \in 1..Len(s) : s[i] = " " /\ \A j \in 1..(i - 1) : s[j] # " "
  ELSE Len(s) + 1

\* str.split(): the maximal runs of non-space characters
RECURSIVE split(_)
split(s) ==
  IF s = <<>> THEN <<>>
  ELSE IF s[1] = " " THEN split(Tail(s))
  ELSE LET n == FirstSpace(s)
       IN  <<SubSeq(s, 1, n - 1)>> \o split(SubSeq(s, n, Len(s)))

\* " ".join(words)
RECURSIVE join(_)
join(words) ==
  IF words = <<>> THEN <<>>
  ELSE IF Len(words) = 1 THEN words[1]
  ELSE words[1] \o <<" ">> \o join(Tail(words))

\* str.strip() of a candidate name (leading and trailing spaces)
RECURSIVE strip(_)
strip(s) ==
  IF s = <<>> THEN s
  ELSE IF s[1] = " " THEN strip(Tail(s))
  ELSE IF s[Len(s)] = " " THEN strip(SubSeq(s, 1, Len(s) - 1))
  ELSE s

Min2(a, b) == IF a <= b THEN a ELSE b

\* a local name for a value computed once: Bind(e, LAMBDA x : body)
Bind(x, F(_)) == F(x)

Max2(a, b) == IF a >= b THEN a ELSE b

(***************************************************************************)
(* Keyword tables of agent_service.py.                                     *)
(***************************************************************************)
quick_map ==
  << [key |-> <<"b","c","a">>,
      ticker |-> <<"B","B","C","A">>],
     [key |-> <<"b","a","n","k"," ","b","c","a">>,
      ticker |-> <<"B","B","C","A">>],
     [key |-> <<"p","t"," ","b","a","n","k"," ","c","e","n","t","r","a","l"," ","a","s","i","a">>,
      ticker |-> <<"B","B","C","A">>],
     [key |-> <<"b","r","i">>,
      ticker |-> <<"B","B","R","I">>],
     [key |-> <<"b","a","n","k"," ","b","r","i">>,
      ticker |-> <<"B","B","R","I">>],
     [key |-> <<"b","a","n","k"," ","r","a","k","y","a","t"," ","i","n","d","o","n","e","s","i","a">>,
      ticker |-> <<"B","B","R","I">>],
     [key |-> <<"m","a","n","d","i","r","i">>,
      ticker |-> <<"B","M","R","I">>],
     [key |-> <<"b","a","n","k"," ","m","a","n","d","i","r","i">>,
      ticker |-> <<"B","M","R","I">>],
     [key |-> <<"t","e","l","k","o","m">>,
      ticker |-> <<"T","L","K","M">>],
     [key |-> <<"t","e","l","k","o","m","s","e","l">>,
      ticker |-> <<"T","L","K","M">>],
     [key |-> <<"a","s","t","r","a">>,
      ticker |-> <<"A","S","I","I">>],
     [key |-> <<"g","o","t","o">>,
      ticker |-> <<"G","O","T","O">>],
     [key |-> <<"g","o","j","e","k">>,
      ticker |-> <<"G","O","T","O">>],
     [key |-> <<"t","o","k","o","p","e","d","i","a">>,
      ticker |-> <<"G","O","T","O">>],
     [key |-> <<"b","u","k","a","l","a","p","a","k">>,
      ticker |-> <<"B","U","K","A">>],
     [key |-> <<"b","u","k","a">>,
      ticker |-> <<"B","U","K","A">>],
     [key |-> <<"u","n","i","l","e","v","e","r">>,
      ticker |-> <<"U","N","V","R">>],
     [key |-> <<"i","n","d","o","f","o","o","d">>,
      ticker |-> <<"I","N","D","F">>],
     [key |-> <<"a","d","a","r","o">>,
      ticker |-> <<"A","D","R","O">>] >>

common_words ==
  << <<"D","A","R","I">>, <<"Y","A","N","G">>, <<"A","K","A","N">>, <<"I","N","F","O">>,
     <<"D","A","T","A">>, <<"H","A","R","I">>, <<"S","A","Y","A">>, <<"B","A","N","K">>,
     <<"J","U","G","A">>, <<"A","T","A","U">>, <<"K","A","T","A">>, <<"B","I","S","A">>,
     <<"M","A","N","A">>, <<"I","N","I">> >>

top_words ==
  << <<"t","o","p">>, <<"t","e","r","b","e","s","a","r">>,
     <<"t","e","r","t","i","n","g","g","i">>, <<"r","a","n","k","i","n","g">>,
     <<"p","a","p","a","n"," ","a","t","a","s">> >>

mcap_words ==
  << <<"m","a","r","k","e","t"," ","c","a","p">>,
     <<"k","a","p","i","t","a","l","i","s","a","s","i">>,
     <<"n","i","l","a","i"," ","p","a","s","a","r">> >>

entity_words ==
  << <<"p","e","r","u","s","a","h","a","a","n">>, <<"s","a","h","a","m">>,
     <<"e","m","i","t","e","n">> >>

quarterly_words ==
  << <<"q","u","a","r","t","e","r">>, <<"k","u","a","r","t","a","l">>,
     <<"q","1">>, <<"q","2">>,
     <<"q","3">>, <<"q","4">>,
     <<"q","u","a","r","t","e","r","l","y">>, <<"t","r","i","w","u","l","a","n">> >>

segment_words ==
  << <<"s","e","g","m","e","n">>, <<"s","e","g","m","e","n","t">>,
     <<"b","i","s","n","i","s">>, <<"b","r","e","a","k","d","o","w","n">>,
     <<"p","e","m","b","a","g","i","a","n">> >>

news_words ==
  << <<"b","e","r","i","t","a">>, <<"n","e","w","s">>, <<"k","a","b","a","r">> >>

index_keywords ==
  << <<"l","q","4","5">>, <<"l","q"," ","4","5">>,
     <<"i","d","x","3","0">>, <<"i","d","x"," ","3","0">>,
     <<"k","o","m","p","a","s","1","0","0">> >>

subsector_map ==
  << [keyword |-> <<"b","a","n","k">>, subsector |-> "banks"],
     [keyword |-> <<"b","a","n","k","i","n","g">>, subsector |-> "banks"],
     [keyword |-> <<"p","e","r","b","a","n","k","a","n">>, subsector |-> "banks"],
     [keyword |-> <<"t","e","l","e","k","o","m","u","n","i","k","a","s","i">>, subsector |-> "telecommunication"],
     [keyword |-> <<"e","n","e","r","g","i">>, subsector |-> "energy"],
     [keyword |-> <<"t","a","m","b","a","n","g">>, subsector |-> "mining"] >>

report_words ==
  << <<"l","a","p","o","r","a","n">>, <<"r","e","p","o","r","t">>, <<"a","n","a","l","i","s","i","s">> >>

specific_financial_terms ==
  << <<"s","a","h","a","m">>, <<"s","t","o","c","k">>, <<"e","m","i","t","e","n">>,
     <<"t","i","c","k","e","r">>, <<"i","h","s","g">>, <<"i","d","x">>,
     <<"b","u","r","s","a">>, <<"p","e","r">>, <<"p","b","v">>,
     <<"r","o","e">>, <<"r","o","a">>, <<"m","a","r","k","e","t"," ","c","a","p">>,
     <<"k","a","p","i","t","a","l","i","s","a","s","i">>, <<"g","a","i","n","e","r">>, <<"l","o","s","e","r">>,
     <<"v","o","l","u","m","e">>, <<"t","r","a","n","s","a","k","s","i">>, <<"b","b","c","a">>,
     <<"b","b","r","i">>, <<"b","m","r","i">>, <<"t","l","k","m">>,
     <<"a","s","i","i">>, <<"u","n","v","r">>, <<"g","o","t","o">>,
     <<"b","u","k","a">>, <<"a","d","r","o">>, <<"i","n","d","f">>,
     <<"i","c","b","p">>, <<"k","l","b","f">>, <<"e","r","a","a">>,
     <<"a","n","t","m">>, <<"p","t","b","a">>, <<"b","a","n","k"," ","b","c","a">>,
     <<"b","a","n","k"," ","b","r","i">>, <<"b","a","n","k"," ","m","a","n","d","i","r","i">>, <<"b","a","n","k"," ","r","a","k","y","a","t">>,
     <<"l","q","4","5">>, <<"l","q"," ","4","5">>, <<"i","d","x","3","0">>,
     <<"k","o","m","p","a","s","1","0","0">>, <<"p","e","r","b","a","n","k","a","n">>, <<"t","e","l","e","k","o","m","u","n","i","k","a","s","i">>,
     <<"t","a","m","b","a","n","g">>, <<"p","r","o","p","e","r","t","i">>, <<"e","n","e","r","g","i">>,
     <<"b","e","r","i","t","a"," ","s","a","h","a","m">>, <<"i","n","f","o"," ","s","a","h","a","m">>, <<"h","a","r","g","a"," ","s","a","h","a","m">>,
     <<"f","i","n","a","n","s","i","a","l">>, <<"f","i","n","a","n","c","i","a","l">>, <<"l","a","p","o","r","a","n">>,
     <<"q","u","a","r","t","e","r">>, <<"k","u","a","r","t","a","l">> >>

(***************************************************************************)
(* difflib.SequenceMatcher(None, a, b).ratio(), as used by                 *)
(* find_ticker_by_name.  Scores are exact fractions [num, den]; the        *)
(* float comparisons of the source agree with the exact ones on these      *)
(* small quotients.                                                        *)
(***************************************************************************)
Frac(n, d) == [num |-> n, den |-> d]

FracGT(x, y) == x.num * y.den > y.num * x.den

FracMax(x, y) == IF FracGT(y, x) THEN y ELSE x

\* length of the common run of a from i and b from j
RECURSIVE RunLen(_, _, _, _)
RunLen(a, b, i, j) ==
  IF i <= Len(a) /\ j <= Len(b) /\ a[i] = b[j]
  THEN 1 + RunLen(a, b, i + 1, j + 1)
  ELSE 0

SetMax(S) == CHOOSE x \in S : \A y \in S : y <= x

SetMin(S) == CHOOSE x \in S : \A y \in S : x <= y

\* find_longest_match: the longest block, earliest in a, then earliest in b
LongestMatch(a, b) ==
  LET k == SetMax({0} \cup {RunLen(a, b, i, j) : i \in 1..Len(a), j \in 1..Len(b)})
      i == SetMin({x \in 1..Len(a) : \E y \in 1..Len(b) : RunLen(a, b, x, y) = k})
      j == SetMin({y \in 1..Len(b) : RunLen(a, b, i, y) = k})
  IN  IF k = 0 THEN [i |-> 0, j |-> 0, size |-> 0]
      ELSE [i |-> i, j |-> j, size |-> k]

\* sum of the sizes of get_matching_blocks()
RECURSIVE MatchingSize(_, _)
MatchingSize(a, b) ==
  IF a = <<>> \/ b = <<>> THEN 0
  ELSE LET m == LongestMatch(a, b)
       IN  IF m.size = 0 THEN 0
           ELSE m.size
                + MatchingSize(SubSeq(a, 1, m.i - 1), SubSeq(b, 1, m.j - 1))
                + MatchingSize(SubSeq(a, m.i + m.size, Len(a)),
                               SubSeq(b, m.j + m.size, Len(b)))

\* ratio() == 2.0 * matches / (len(a) + len(b)), 1.0 for two empty strings
ratio(a, b) ==
  IF Len(a) + Len(b) = 0 THEN Frac(1, 1)
  ELSE Frac(2 * MatchingSize(a, b), Len(a) + Len(b))

\* the substring boost 0.85 and the acceptance threshold 0.7
SubstringBoost == Frac(85, 100)

AcceptScore == Frac(7, 10)

(***************************************************************************)
(* The data provider (services/sectors_service.py).  One HTTP exchange is  *)
(* an outcome [status, body]; a parsed JSON body is a record               *)
(* [type, items, keys, error, data].                                       *)
(***************************************************************************)
JList(items) ==
  [type |-> "list", items |-> items, keys |-> {}, error |-> "", data |-> <<>>]

JDict(keys, data) ==
  [type |-> "dict", items |-> <<>>, keys |-> keys, error |-> "", data |-> data]

\* {"error": msg}
ErrorMapping(msg) ==
  [type |-> "dict", items |-> <<>>, keys |-> {"error"}, error |-> msg, data |-> <<>>]

Http(status, body) == [status |-> status, body |-> body]

HttpFailures == {"429", "400", "404", "500", "timeout", "failed"}

\* SectorsAPI._make_request: the parsed body of a 200 answer, an error
\* mapping for an HTTP error status, a timeout or any other exception
make_request(outcome) ==
  IF outcome.status = "200" THEN outcome.body
  ELSE IF outcome.status = "429" THEN ErrorMapping("Rate limit exceeded")
  ELSE IF outcome.status = "400" THEN ErrorMapping("Bad request")
  ELSE IF outcome.status = "404" THEN ErrorMapping("Endpoint not found")
  ELSE IF outcome.status = "timeout" THEN ErrorMapping("Request timeout")
  ELSE IF outcome.status = "failed" THEN ErrorMapping("Request failed")
  ELSE ErrorMapping("HTTP Error")

\* isinstance(data, list)
is_list(data) == data.type = "list"

\* isinstance(data, dict) and "error" in data
has_error(data) == data.type = "dict" /\ "error" \in data.keys

(***************************************************************************)
(* Company records.  A field of a JSON record is a string, null or         *)
(* missing.                                                                *)
(***************************************************************************)
FStr(s) == [k |-> "str", s |-> s]

FNull == [k |-> "null", s |-> <<>>]

FMissing == [k |-> "missing", s |-> <<>>]

\* dict.get(key, ""): the default only replaces a missing key, not a null
get_or_empty(field) == IF field.k = "missing" THEN FStr(<<>>) ELSE field

common_subsectors ==
  << "banks", "telecommunication", "energy", "consumer-goods",
     "mining", "property", "infrastructure", "finance" >>

\* _COMPANY_CACHE: None, or the cached list
CacheNone == [is_none |-> TRUE, companies |-> <<>>]

Cached(companies) == [is_none |-> FALSE, companies |-> companies]

\* the loop of get_all_companies over common_subsectors from index n on
RECURSIVE FallbackCompanies(_, _)
FallbackCompanies(sub, n) ==
  IF n > Len(common_subsectors) THEN <<>>
  ELSE LET companies == make_request(sub[common_subsectors[n]])
       IN  (IF is_list(companies) THEN companies.items ELSE <<>>)
           \o FallbackCompanies(sub, n + 1)

\* one request to the provider: the endpoint and the n_stock parameter
Req(endpoint, n_stock) == [endpoint |-> endpoint, n_stock |-> n_stock]

FallbackRequests ==
  [n \in 1..Len(common_subsectors) |-> Req("companies/?sub_sector", 50)]

\* get_all_companies that keeps the result of the fallback only when it is
\* not empty
get_all_companies_CacheNonEmptyOnly(cache, api, fetch) ==
  IF ~cache.is_none THEN [ret |-> cache.companies, cache |-> cache, reqs |-> <<>>]
  ELSE IF ~api THEN [ret |-> <<>>, cache |-> cache, reqs |-> <<>>]
  ELSE LET companies == make_request(fetch.bulk)
       IN  IF is_list(companies) /\ companies.items # <<>>
           THEN [ret |-> companies.items, cache |-> Cached(companies.items),
                 reqs |-> <<Req("companies/", 200)>>]
           ELSE LET all_companies == FallbackCompanies(fetch.sub, 1)
                IN  [ret |-> all_companies,
                     cache |-> IF all_companies = <<>> THEN cache
                               ELSE Cached(all_companies),
                     reqs |-> <<Req("companies/", 200)>> \o FallbackRequests]

\* get_all_companies().  cache is _COMPANY_CACHE, api tells whether
\* sectors_api is a client, fetch holds the provider's answers.  The result
\* is the returned list, the new cache and the provider requests issued.
get_all_companies(cache, api, fetch) ==
  IF ~cache.is_none THEN [ret |-> cache.companies, cache |-> cache, reqs |-> <<>>]
  ELSE IF ~api THEN [ret |-> <<>>, cache |-> cache, reqs |-> <<>>]
  ELSE LET companies == make_request(fetch.bulk)
       IN  IF is_list(companies) /\ companies.items # <<>>
           THEN [ret |-> companies.items, cache |-> Cached(companies.items),
                 reqs |-> <<Req("companies/", 200)>>]
           ELSE LET all_companies == FallbackCompanies(fetch.sub, 1)
                IN  [ret |-> all_companies, cache |-> Cached(all_companies),
                     reqs |-> <<Req("companies/", 200)>> \o FallbackRequests]

(***************************************************************************)
(* The language-model completion service (services/groq_service.py).  One  *)
(* completion is an outcome [kind, text]: the service returns text,        *)
(* returns None as content, or raises.                                     *)
(***************************************************************************)
Completion(kind, text) == [kind |-> kind, text |-> text]

\* a conversation turn {role, content}
Msg(role, content) == [role |-> role, content |-> content]

\* chat_history[-5:]
Last5(chat_history) ==
  SubSeq(chat_history, Max2(1, Len(chat_history) - 4), Len(chat_history))

\* the text get_bot_response_standard returns when the completion fails
StandardError == <<"Terjadi kesalahan: ">>

(***************************************************************************)
(* The bounded universe of texts: the examples of the specification, one   *)
(* text per alias key, and every text of at most MaxWords words over       *)
(* Vocab.                                                                  *)
(***************************************************************************)
MaxWords == 2

Vocab ==
  { <<"b","c","a">>,
    <<"B","R","I">>,
    <<"B","B","N","I">>,
    <<"B","a","n","k">>,
    <<"t","o","p">>,
    <<"s","a","h","a","m">>,
    <<"b","e","r","i","t","a">>,
    <<"k","u","a","r","t","a","l">> }

\* the texts of exactly n words over Vocab
RECURSIVE WordTexts(_)
WordTexts(n) ==
  IF n = 1 THEN Vocab
  ELSE {t \o <<" ">> \o w : t \in WordTexts(n - 1), w \in Vocab}

GeneratedTexts == UNION {WordTexts(n) : n \in 1..MaxWords}

T_halo_apa_kabar ==
  <<"h","a","l","o"," ","a","p","a"," ","k","a","b","a","r">>

T_top5 ==
  <<"t","o","p"," ","5"," ","p","e","r","u","s","a","h","a","a","n"," ","d","e","n","g","a","n"," ","m","a","r","k","e","t"," ","c","a","p"," ","t","e","r","b","e","s","a","r">>

T_laporan_q2 ==
  <<"l","a","p","o","r","a","n"," ","k","u","a","r","t","a","l"," ","Q","2"," ","2","0","2","4"," ","B","B","C","A">>

T_berita_bbri ==
  <<"b","e","r","i","t","a"," ","B","B","R","I">>

T_bank_central_asia ==
  <<"s","a","h","a","m"," ","B","a","n","k"," ","C","e","n","t","r","a","l"," ","A","s","i","a"," ","g","i","m","a","n","a","?">>

T_top60 ==
  <<"t","o","p"," ","6","0"," ","s","a","h","a","m">>

T_top0 ==
  <<"t","o","p"," ","0"," ","e","m","i","t","e","n">>

T_kuartal7 ==
  <<"k","u","a","r","t","a","l"," ","7"," ","B","B","N","I">>

T_q2 ==
  <<"q","2"," ","B","B","N","I">>

T_info_bbni ==
  <<"I","N","F","O"," ","B","B","N","I">>

T_segmen ==
  <<"s","e","g","m","e","n"," ","B","B","N","I">>

T_lq45 ==
  <<"l","q"," ","4","5">>

T_laporan_perbankan ==
  <<"l","a","p","o","r","a","n"," ","p","e","r","b","a","n","k","a","n">>

T_energi ==
  <<"e","n","e","r","g","i">>

T_hi ==
  <<"h","i">>

T_apa_itu ==
  <<"a","p","a"," ","i","t","u">>

T_Telkomsel ==
  <<"T","e","l","k","o","m","s","e","l">>

T_GOJEK_BBNI ==
  <<"G","O","J","E","K"," ","B","B","N","I">>

T_BBNI_bri_BCA == <<"B","B","N","I"," ","b","r","i"," ","B","C","A">>

T_quarterly_2024 ==
  <<"q","u","a","r","t","e","r","l","y"," ","2","0","2","4"," ","B","B","C","A">>

T_kuartal0 ==
  <<"k","u","a","r","t","a","l"," ","0"," ","B","B","N","I">>

T_top_saham_BBRI == <<"b","e","r","i","t","a"," ","t","o","p"," ","3"," ","s","a","h","a","m"," ","B","B","R","I"," ","k","u","a","r","t","a","l"," ","2">>

ExampleTexts ==
  { T_quarterly_2024, T_kuartal0, T_BBNI_bri_BCA, T_top_saham_BBRI, T_halo_apa_kabar, T_top5, T_laporan_q2, T_berita_bbri, T_bank_central_asia, 
    T_top60, T_top0, T_kuartal7, T_q2, T_info_bbni, T_segmen, T_lq45,
     T_laporan_perbankan, T_energi, T_hi, T_apa_itu, T_Telkomsel, T_GOJEK_BBNI }

AliasTexts == {quick_map[n].key : n \in 1..Len(quick_map)}

Texts == ExampleTexts \cup AliasTexts \cup GeneratedTexts

(***************************************************************************)
(* Collaborator answers and inputs, drawn from small sets.                  *)
(***************************************************************************)
MaxCompanies == 2

MaxHistory == 2

MaxTurns == 2

C_BBCA ==
  [company_name |-> FStr(<<"P","T"," ","B","a","n","k"," ","C","e","n","t","r","a","l"," ","A","s","i","a">>),
   symbol |-> FStr(<<"B","B","C","A">>)]

C_BBRI ==
  [company_name |-> FStr(<<"P","T"," ","B","a","n","k"," ","R","a","k","y","a","t"," ","I","n","d","o","n","e","s","i","a">>),
   symbol |-> FStr(<<"B","B","R","I">>)]

\* a record whose company_name is null
C_NullName ==
  [company_name |-> FNull, symbol |-> FStr(<<"A","G","R","O",".","J","K">>)]

CompanyRecords == {C_BBCA, C_BBRI, C_NullName}

\* the lists of at most n distinct company records
RECURSIVE ListsUpTo(_)
ListsUpTo(n) ==
  IF n = 0 THEN {<<>>}
  ELSE ListsUpTo(n - 1)
       \cup {Append(l, c) : l \in {x \in ListsUpTo(n - 1) : Len(x) = n - 1},
                            c \in CompanyRecords}

CompanyLists ==
  {l \in ListsUpTo(MaxCompanies) : \A i, j \in 1..Len(l) : i # j => l[i] # l[j]}

RateLimited == Http("429", JList(<<>>))

\* the provider's answers to the eight per-subsector requests
AllFail == [x \in {common_subsectors[n] : n \in 1..Len(common_subsectors)} |-> RateLimited]

BanksOnly(l) == [AllFail EXCEPT !["banks"] = Http("200", JList(l))]

\* the provider's answers to a fetch of the company list
AllFetchEnvs ==
  {[bulk |-> Http("200", JList(l)), sub |-> AllFail] : l \in CompanyLists}
  \cup {[bulk |-> b, sub |-> BanksOnly(l)] :
          b \in {RateLimited, Http("200", JDict({"detail"}, <<>>))},
          l \in CompanyLists}

FetchEnvs ==
  { [bulk |-> Http("200", JList(<<C_BBCA, C_BBRI>>)), sub |-> AllFail],
    [bulk |-> Http("200", JList(<<C_NullName>>)), sub |-> AllFail],
    [bulk |-> RateLimited, sub |-> AllFail],
    [bulk |-> Http("timeout", JList(<<>>)), sub |-> BanksOnly(<<C_BBRI>>)] }

QItem(quarter, year) == [quarter |-> quarter, year |-> year]

ToolBodies ==
  { JList(<<QItem(2, 2024)>>), JList(<<>>),
    JDict({"data"}, <<QItem(2, 2024)>>), JDict({"symbol"}, <<>>) }

ToolOutcomes ==
  {Http("200", b) : b \in ToolBodies}
  \cup {Http(f, JList(<<>>)) : f \in HttpFailures}

R_narration == <<"B","B","C","A"," ","n","a","i","k">>

R_plain == <<"o","k">>

Completions ==
  { Completion("text", R_narration), Completion("text", <<>>),
    Completion("none", <<>>), Completion("raise", <<>>) }

StandardCompletions ==
  { Completion("text", R_plain), Completion("raise", <<>>) }

ResolverCompletions ==
  { Completion("text", <<" ">> \o T_berita_bbri \o <<" ">>),
    Completion("text", T_apa_itu),
    Completion("none", <<>>), Completion("raise", <<>>) }

HistoryMsgs ==
  { Msg("user", T_berita_bbri), Msg("assistant", R_plain), Msg("user", T_apa_itu) }

RECURSIVE HistoriesOfLen(_)
HistoriesOfLen(n) ==
  IF n = 0 THEN {<<>>}
  ELSE {Append(h, m) : h \in HistoriesOfLen(n - 1), m \in HistoryMsgs}

Histories == UNION {HistoriesOfLen(n) : n \in 0..MaxHistory}

AgentTexts ==
  { T_halo_apa_kabar, T_top5, T_laporan_q2, T_berita_bbri, T_bank_central_asia,
    T_q2, T_segmen, T_lq45, T_laporan_perbankan, T_energi, T_hi, T_apa_itu }

ClassifierTexts == AgentTexts \cup WordTexts(1) \cup {T_info_bbni, T_Telkomsel}

AgentHistories ==
  { <<>>,
    <<Msg("user", T_berita_bbri), Msg("assistant", R_plain)>>,
    <<Msg("user", T_hi), Msg("assistant", R_plain), Msg("user", T_apa_itu)>> }

AgentToolOutcomes ==
  { Http("200", JList(<<QItem(2, 2024)>>)), Http("200", JDict({"data"}, <<QItem(2, 2024)>>)),
    RateLimited, Http("timeout", JList(<<>>)) }

\* every text the model hands to the extractor or the router
AllTexts ==
  Texts
  \cup {strip(c.text) : c \in ResolverCompletions}
  \cup {c.text : c \in Completions \cup StandardCompletions}
  \cup {m.content : m \in HistoryMsgs}
  \cup {StandardError}

(***************************************************************************)
(* find_ticker_by_name and extract_ticker.  A result is                    *)
(* [raised, val, cache, reqs]: whether the call raised, the value it       *)
(* returned, and the cache and provider requests it leaves behind.         *)
(***************************************************************************)
Returned(val, cache, reqs) ==
  [raised |-> FALSE, val |-> val, cache |-> cache, reqs |-> reqs]

Raised(cache, reqs) ==
  [raised |-> TRUE, val |-> None, cache |-> cache, reqs |-> reqs]

\* the alias lookup taking the last key of the table the text contains
QuickMatch_LastKey(text_lower) ==
  IF \E n \in 1..Len(quick_map) : Contains(text_lower, quick_map[n].key)
  THEN quick_map[SetMax({n \in 1..Len(quick_map) :
                           Contains(text_lower, quick_map[n].key)})].ticker
  ELSE None

\* the first key of quick_map, in table order, contained in text_lower
QuickMatch(text_lower) ==
  IF \E n \in 1..Len(quick_map) : Contains(text_lower, quick_map[n].key)
  THEN quick_map[SetMin({n \in 1..Len(quick_map) :
                           Contains(text_lower, quick_map[n].key)})].ticker
  ELSE None

\* a match of \b([A-Z]{4})\b starts at position i of s
TickerTokenAt(s, i) ==
  /\ i + 3 <= Len(s)
  /\ \A d \in 0..3 : isupper(s[i + d])
  /\ (i = 1 \/ ~IsWordChar(s[i - 1]))
  /\ (i + 3 = Len(s) \/ ~IsWordChar(s[i + 4]))

\* re.search(r'\b([A-Z]{4})\b', s): the leftmost match, None without one
SearchTickerToken(s) ==
  IF \E i \in 1..Len(s) : TickerTokenAt(s, i)
  THEN LET i == SetMin({x \in 1..Len(s) : TickerTokenAt(s, x)})
       IN  SubSeq(s, i, i + 3)
  ELSE None

InSeq(x, seq) == \E n \in 1..Len(seq) : seq[n] = x

\* the explicit-token stage: the first 4-letter token of text.upper(),
\* unless it is a common word
ExplicitTicker(text) ==
  LET potential_ticker == SearchTickerToken(upper(text))
  IN  IF potential_ticker # None /\ ~InSeq(potential_ticker, common_words)
      THEN potential_ticker
      ELSE None

\* the n-grams words[i:j] of the double loop, i from index i on
RECURSIVE Phrases(_, _, _)
Phrases(words, i, j) ==
  IF i > Len(words) THEN <<>>
  ELSE IF j > Len(words) \/ j > i + 2 THEN Phrases(words, i + 1, i + 1)
  ELSE LET phrase == join(SubSeq(words, i, j))
       IN  (IF Len(phrase) > 3 THEN <<phrase>> ELSE <<>>)
           \o Phrases(words, i, j + 1)

\* potential_names: the capitalised words longer than 3, then the n-grams
PotentialNames(text) ==
  LET words == split(text)
      IsName(word) == Len(word) > 3 /\ isupper(word[1])
  IN  SelectSeq(words, IsName) \o Phrases(words, 1, 1)

\* the score of one company for a candidate name: the similarity ratio,
\* raised to the substring boost when the candidate is part of the name
NameScore(company_name_lower, name) ==
  LET score == ratio(company_name_lower, name)
  IN  IF Contains(name, company_name_lower)
      THEN FracMax(score, SubstringBoost)
      ELSE score

Range(seq) == {seq[n] : n \in 1..Len(seq)}

\* The text computations above are evaluated once for every text of the
\* universe and looked up afterwards; a text outside it is computed anew.
TextFacts(text) ==
  [quick |-> QuickMatch(lower(text)),
   explicit |-> ExplicitTicker(text),
   names |-> PotentialNames(text),
   has_financial_term |-> ContainsAny(lower(text), specific_financial_terms)]

TextFactsTable == [t \in AllTexts |-> TextFacts(t)] @@ <<>>

FactsOf(text) ==
  IF text \in DOMAIN TextFactsTable THEN TextFactsTable[text] ELSE TextFacts(text)

\* the body of the for loop of find_ticker_by_name for one company: whether
\* reading the record raises, the record's ticker, whether the ticker equals
\* the candidate, and the score
CompanyStep(company_name, company) ==
  LET company_name_lower == strip(lower(company_name))
      name_field == get_or_empty(company.company_name)
      ticker_field == get_or_empty(company.symbol)
  IN  IF name_field.k = "null" \/ ticker_field.k = "null"
      THEN [raise |-> TRUE, ticker |-> <<>>, exact |-> FALSE, score |-> Frac(0, 1)]
      ELSE [raise |-> FALSE, ticker |-> ticker_field.s,
            exact |-> lower(ticker_field.s) = company_name_lower,
            score |-> NameScore(company_name_lower, lower(name_field.s))]

CandidateNames == UNION {Range(PotentialNames(t)) : t \in AllTexts}

CompanyStepTable ==
  [p \in CandidateNames \X CompanyRecords |-> CompanyStep(p[1], p[2])] @@ <<>>

StepOf(company_name, company) ==
  IF <<company_name, company>> \in DOMAIN CompanyStepTable
  THEN CompanyStepTable[<<company_name, company>>]
  ELSE CompanyStep(company_name, company)

\* the for loop of find_ticker_by_name from company n on
RECURSIVE MatchLoop(_, _, _, _, _)
MatchLoop(companies, n, company_name, best_match, best_score) ==
  IF n > Len(companies) THEN <<"end", best_match, best_score>>
  ELSE Bind(StepOf(company_name, companies[n]), LAMBDA step :
         IF step.raise THEN <<"raise">>
         ELSE IF step.exact THEN <<"return", step.ticker>>
         ELSE IF FracGT(step.score, best_score)
         THEN MatchLoop(companies, n + 1, company_name, step.ticker, step.score)
         ELSE MatchLoop(companies, n + 1, company_name, best_match, best_score))

find_ticker_by_name(company_name, cache, api, fetch) ==
  IF company_name = <<>> THEN Returned(None, cache, <<>>)
  ELSE Bind(get_all_companies(cache, api, fetch), LAMBDA got :
       LET companies == got.ret
       IN  IF companies = <<>> THEN Returned(None, got.cache, got.reqs)
           ELSE Bind(MatchLoop(companies, 1, company_name, None, Frac(0, 1)), LAMBDA r :
                  IF r[1] = "raise" THEN Raised(got.cache, got.reqs)
                  ELSE IF r[1] = "return" THEN Returned(r[2], got.cache, got.reqs)
                  ELSE IF FracGT(r[3], AcceptScore)
                       THEN Returned(r[2], got.cache, got.reqs)
                       ELSE Returned(None, got.cache, got.reqs)))

\* the loop over potential_names from candidate n on
RECURSIVE FuzzyLoop(_, _, _, _, _, _)
FuzzyLoop(names, n, cache, api, fetch, reqs) ==
  IF n > Len(names) THEN Returned(None, cache, reqs)
  ELSE Bind(find_ticker_by_name(names[n], cache, api, fetch), LAMBDA r :
         IF r.raised THEN Raised(r.cache, reqs \o r.reqs)
         ELSE IF r.val # None /\ r.val # <<>>
              THEN Returned(r.val, r.cache, reqs \o r.reqs)
              ELSE FuzzyLoop(names, n + 1, r.cache, api, fetch, reqs \o r.reqs))

extract_ticker(text, cache, api, fetch) ==
  Bind(FactsOf(text), LAMBDA facts :
  LET quick == facts.quick
      explicit == facts.explicit
  IN  IF quick # None THEN Returned(quick, cache, <<>>)
      ELSE IF explicit # None THEN Returned(explicit, cache, <<>>)
      ELSE FuzzyLoop(facts.names, 1, cache, api, fetch, <<>>))

(***************************************************************************)
(* The Intent Router (detect_intent_and_route).                            *)
(***************************************************************************)
\* parameter values: an int, a string, None, or no such key in the dict
PyInt(n) == [t |-> "int", n |-> n, s |-> <<>>]

PyStr(x) == [t |-> "str", n |-> 0, s |-> x]

PyNone == [t |-> "None", n |-> 0, s |-> <<>>]

Absent == [t |-> "absent", n |-> 0, s |-> <<>>]

\* the parameter dict {}: no key present
NoParams ==
  [limit |-> Absent, ticker |-> Absent, quarter |-> Absent, year |-> Absent,
   query |-> Absent, index |-> Absent, subsector |-> Absent]

\* int() of a string of digits
RECURSIVE ParseInt(_)
ParseInt(ds) ==
  IF ds = <<>> THEN 0
  ELSE 10 * ParseInt(SubSeq(ds, 1, Len(ds) - 1))
       + (IndexIn(DigitChars, ds[Len(ds)]) - 1)

\* the digit run of s from position i on ends at position DigitRunEnd - 1
RECURSIVE DigitRunEnd(_, _)
DigitRunEnd(s, i) ==
  IF i <= Len(s) /\ isdigit(s[i]) THEN DigitRunEnd(s, i + 1) ELSE i

\* a match of \b(\d+)\b starts at position i of s
IntTokenAt(s, i) ==
  /\ isdigit(s[i])
  /\ (i = 1 \/ ~IsWordChar(s[i - 1]))
  /\ LET e == DigitRunEnd(s, i) IN e > Len(s) \/ ~IsWordChar(s[e])

\* re.search(r'\b(\d+)\b', s): -1 without a match, else int(group(1))
SearchInt(s) ==
  IF \E i \in 1..Len(s) : IntTokenAt(s, i)
  THEN LET i == SetMin({x \in 1..Len(s) : IntTokenAt(s, x)})
       IN  ParseInt(SubSeq(s, i, DigitRunEnd(s, i) - 1))
  ELSE -1

\* s continues with word w at position i
PrefixAt(s, i, w) ==
  i + Len(w) - 1 <= Len(s) /\ \A d \in 1..Len(w) : s[i + d - 1] = w[d]

\* first position at or after i that holds no space
RECURSIVE SkipSpaces(_, _)
SkipSpaces(s, i) ==
  IF i <= Len(s) /\ s[i] = " " THEN SkipSpaces(s, i + 1) ELSE i

quarter_prefixes ==
  << <<"q","u","a","r","t","e","r">>, <<"q">>,
     <<"k","u","a","r","t","a","l">> >>

\* (?:quarter|q|kuartal)\s*(\d) matches at position i through prefix n
QuarterAt(s, i, n) ==
  /\ PrefixAt(s, i, quarter_prefixes[n])
  /\ LET d == SkipSpaces(s, i + Len(quarter_prefixes[n]))
     IN  d <= Len(s) /\ isdigit(s[d])

\* re.search(r'(?:quarter|q|kuartal)\s*(\d)', s): -1 without a match, else
\* int(group(1)) of the leftmost match, alternatives tried in order
SearchQuarter(s) ==
  IF \E i \in 1..Len(s), n \in 1..3 : QuarterAt(s, i, n)
  THEN LET i == SetMin({x \in 1..Len(s) : \E n \in 1..3 : QuarterAt(s, x, n)})
           n == SetMin({m \in 1..3 : QuarterAt(s, i, m)})
           d == SkipSpaces(s, i + Len(quarter_prefixes[n]))
       IN  IndexIn(DigitChars, s[d]) - 1
  ELSE -1

YearAt(s, i) ==
  /\ i + 3 <= Len(s)
  /\ s[i] = "2" /\ s[i + 1] = "0"
  /\ isdigit(s[i + 2]) /\ isdigit(s[i + 3])

\* re.search(r'20\d{2}', s): -1 without a match, else int(group(0))
SearchYear(s) ==
  IF \E i \in 1..Len(s) : YearAt(s, i)
  THEN LET i == SetMin({x \in 1..Len(s) : YearAt(s, x)})
       IN  ParseInt(SubSeq(s, i, i + 3))
  ELSE -1

\* datetime.now().year
current_year == 2026

RemoveSpaces(s) == SelectSeq(s, LAMBDA c : c # " ")

Intent(tag, params) == [tag |-> tag, params |-> params]

\* rule 1, the top/ranking rule (lines 214-232)
IsTopRequest(text_lower) ==
  /\ ContainsAny(text_lower, top_words)
  /\ (ContainsAny(text_lower, mcap_words) \/ ContainsAny(text_lower, entity_words))

\* the count of a top request without the cap at 50
TopLimit_NoCap(user_input) ==
  LET m == SearchInt(user_input)
  IN  IF m = -1 THEN 5 ELSE m

\* number: 5, or the first integer of the text capped at 50 (lines 225-229)
TopLimit(user_input) ==
  LET m == SearchInt(user_input)
  IN  IF m = -1 THEN 5 ELSE Min2(m, 50)

\* the quarter and the year of a quarterly request (lines 243-258)
QuarterOf(text_lower) ==
  LET q == SearchQuarter(text_lower)
  IN  IF q = -1 THEN PyNone ELSE PyInt(q)

\* a quarter that Python's truth test accepts: neither None nor 0
Truthy(v) == v.t = "int" /\ v.n # 0

YearOf(user_input, quarter) ==
  LET y == SearchYear(user_input)
  IN  IF y # -1 THEN PyInt(y)
      ELSE IF Truthy(quarter) THEN PyInt(current_year)
      ELSE PyNone

\* the ticker branch returning quarterly_financials on the keyword alone
TickerBranch_NoFallThrough(user_input, text_lower, ticker) ==
  LET quarter == QuarterOf(text_lower)
      year == YearOf(user_input, quarter)
  IN  IF ContainsAny(text_lower, quarterly_words)
      THEN Intent("quarterly_financials",
                  [NoParams EXCEPT !.ticker = PyStr(ticker),
                                   !.quarter = quarter, !.year = year])
      ELSE IF ContainsAny(text_lower, segment_words)
      THEN Intent("company_segments", [NoParams EXCEPT !.ticker = PyStr(ticker)])
      ELSE IF ContainsAny(text_lower, news_words)
      THEN Intent("market_news",
                  [NoParams EXCEPT !.query = PyStr(ticker), !.limit = PyInt(10)])
      ELSE Intent("stock_info", [NoParams EXCEPT !.ticker = PyStr(ticker)])

\* rule 2, the ticker branch (lines 238-277)
TickerBranch(user_input, text_lower, ticker) ==
  LET quarter == QuarterOf(text_lower)
      year == YearOf(user_input, quarter)
  IN  IF ContainsAny(text_lower, quarterly_words)
         /\ (Truthy(quarter) \/ Truthy(year))
      THEN Intent("quarterly_financials",
                  [NoParams EXCEPT !.ticker = PyStr(ticker),
                                   !.quarter = quarter, !.year = year])
      ELSE IF ContainsAny(text_lower, segment_words)
      THEN Intent("company_segments", [NoParams EXCEPT !.ticker = PyStr(ticker)])
      ELSE IF ContainsAny(text_lower, news_words)
      THEN Intent("market_news",
                  [NoParams EXCEPT !.query = PyStr(ticker), !.limit = PyInt(10)])
      ELSE Intent("stock_info", [NoParams EXCEPT !.ticker = PyStr(ticker)])

\* rule 3, the rules for a text without ticker (lines 284-312)
GeneralBranch(text_lower) ==
  IF ContainsAny(text_lower, news_words)
  THEN Intent("market_news",
              [NoParams EXCEPT !.query = PyNone, !.limit = PyInt(10)])
  ELSE IF ContainsAny(text_lower, index_keywords)
  THEN LET keyword == index_keywords[SetMin({n \in 1..Len(index_keywords) :
                                      Contains(text_lower, index_keywords[n])})]
       IN  Intent("companies_by_index",
                  [NoParams EXCEPT !.index = PyStr(upper(RemoveSpaces(keyword))),
                                   !.limit = PyInt(20)])
  ELSE IF \E n \in 1..Len(subsector_map) :
             Contains(text_lower, subsector_map[n].keyword)
  THEN LET subsector ==
             subsector_map[SetMin({n \in 1..Len(subsector_map) :
                 Contains(text_lower, subsector_map[n].keyword)})].subsector
       IN  IF ContainsAny(text_lower, report_words)
           THEN Intent("subsector_report",
                       [NoParams EXCEPT !.subsector = PyStr(<<subsector>>)])
           ELSE Intent("companies_subsector",
                       [NoParams EXCEPT !.subsector = PyStr(<<subsector>>),
                                        !.limit = PyInt(20)])
  ELSE Intent("unknown", NoParams)

\* the rules with the general rules tried before the ticker branch
Route_GeneralFirst(user_input, ticker) ==
  LET text_lower == lower(user_input)
  IN  IF IsTopRequest(text_lower)
      THEN Intent("top_market_cap",
                  [NoParams EXCEPT !.limit = PyInt(TopLimit(user_input))])
      ELSE IF GeneralBranch(text_lower).tag # "unknown"
      THEN GeneralBranch(text_lower)
      ELSE IF ticker # None /\ ticker # <<>>
      THEN TickerBranch(user_input, text_lower, ticker)
      ELSE GeneralBranch(text_lower)

\* the rules of detect_intent_and_route once the ticker is known; ticker is
\* None or a string (an empty string never comes out of extract_ticker)
Route(user_input, ticker) ==
  LET text_lower == lower(user_input)
  IN  IF IsTopRequest(text_lower)
      THEN Intent("top_market_cap",
                  [NoParams EXCEPT !.limit = PyInt(TopLimit(user_input))])
      ELSE IF ticker # None /\ ticker # <<>>
      THEN TickerBranch(user_input, text_lower, ticker)
      ELSE GeneralBranch(text_lower)

\* Route is evaluated once for every text of the universe and every ticker
\* the extractor can find in it, and looked up afterwards.
TickersOf(text) ==
  {None, FactsOf(text).quick, FactsOf(text).explicit}
  \cup {get_or_empty(c.symbol).s : c \in CompanyRecords}

RouteTable ==
  [p \in UNION {{<<t, k>> : k \in TickersOf(t)} : t \in AllTexts}
     |-> Route(p[1], p[2])] @@ <<>>

RouteOf(user_input, ticker) ==
  IF <<user_input, ticker>> \in DOMAIN RouteTable
  THEN RouteTable[<<user_input, ticker>>]
  ELSE Route(user_input, ticker)

\* the loop over reversed(chat_history[-5:]) from message n down; the
\* result of extract_ticker on the first turn that yields a ticker
RECURSIVE ContextTicker(_, _, _, _, _, _)
ContextTicker(msgs, n, cache, api, fetch, reqs) ==
  IF n < 1 THEN Returned(None, cache, reqs)
  ELSE IF msgs[n].role \notin {"user", "assistant"}
  THEN ContextTicker(msgs, n - 1, cache, api, fetch, reqs)
  ELSE Bind(extract_ticker(msgs[n].content, cache, api, fetch), LAMBDA e :
         IF e.raised THEN Raised(e.cache, reqs \o e.reqs)
         ELSE IF e.val # None THEN Returned(e.val, e.cache, reqs \o e.reqs)
         ELSE ContextTicker(msgs, n - 1, e.cache, api, fetch, reqs \o e.reqs))

\* the router taking the ticker of an earlier turn when the text has none
detect_intent_and_route_ContextTicker(user_input, chat_history, cache, api, fetch) ==
  Bind(extract_ticker(user_input, cache, api, fetch), LAMBDA e :
    IF e.raised
    THEN [raised |-> TRUE, val |-> Intent("raised", NoParams), cache |-> e.cache,
          reqs |-> e.reqs, ticker |-> None]
    ELSE Bind(IF e.val = None /\ chat_history # <<>>
              THEN Bind(Last5(chat_history), LAMBDA recent :
                     ContextTicker(recent, Len(recent), e.cache, api, fetch, e.reqs))
              ELSE Returned(e.val, e.cache, e.reqs), LAMBDA c :
           IF c.raised
           THEN [raised |-> TRUE, val |-> Intent("raised", NoParams),
                 cache |-> c.cache, reqs |-> c.reqs, ticker |-> None]
           ELSE [raised |-> FALSE, val |-> RouteOf(user_input, c.val),
                 cache |-> c.cache, reqs |-> c.reqs, ticker |-> c.val]))

\* detect_intent_and_route: val is the pair (intent, params), ticker is what
\* extract_ticker returned (line 204); chat_history is accepted and not read
detect_intent_and_route(user_input, chat_history, cache, api, fetch) ==
  Bind(extract_ticker(user_input, cache, api, fetch), LAMBDA e :
    IF e.raised
    THEN [raised |-> TRUE, val |-> Intent("raised", NoParams), cache |-> e.cache,
          reqs |-> e.reqs, ticker |-> None]
    ELSE [raised |-> FALSE, val |-> RouteOf(user_input, e.val), cache |-> e.cache,
          reqs |-> e.reqs, ticker |-> e.val])

(***************************************************************************)
(* The tools (services/sectors_tools.py) and the formatters of             *)
(* services/sectors_service.py.  A tool result is a string, kept as a      *)
(* sequence of fragments; an error-marker string starts with the failure   *)
(* glyph.                                                                  *)
(***************************************************************************)
\* the failure glyph (U+274C) that prefixes every error string
ERROR_MARKER == "(x)"

\* tool_result.startswith(ERROR_MARKER)
startswith_marker(text) == text # <<>> /\ text[1] = ERROR_MARKER

ErrorText(msg) == <<ERROR_MARKER, " Error: ", msg>>

NotConfigured == <<ERROR_MARKER, " Sectors API not configured.">>

\* what a tool hands back: its string and the provider requests it made
ToolOut(val, reqs) == [val |-> val, reqs |-> reqs]

format_company_overview(data) ==
  IF has_error(data) THEN ErrorText(data.error)
  ELSE IF is_list(data) THEN <<ERROR_MARKER, " Error formatting data: ">>
  ELSE <<"DATA SAHAM (Raw API Response):", "json">>

format_companies_list(data, title) ==
  IF has_error(data) THEN ErrorText(data.error)
  ELSE IF is_list(data) /\ data.items = <<>>
  THEN <<"Tidak ada data perusahaan ditemukan.">>
  ELSE IF ~is_list(data) /\ data.keys = {}
  THEN <<"Tidak ada data perusahaan ditemukan.">>
  ELSE <<title, "json">>

format_news(data) ==
  IF has_error(data) THEN ErrorText(data.error)
  ELSE IF is_list(data) /\ data.items = <<>>
  THEN <<"Tidak ada berita ditemukan.">>
  ELSE IF ~is_list(data) /\ data.keys = {}
  THEN <<"Tidak ada berita ditemukan.">>
  ELSE <<"BERITA TERKINI", "json">>

get_stock_info(params, client, outcome) ==
  IF ~client THEN ToolOut(NotConfigured, <<>>)
  ELSE ToolOut(format_company_overview(make_request(outcome)),
               <<Req("company/report/", 0)>>)

get_top_stocks_by_market_cap(params, client, outcome) ==
  IF ~client THEN ToolOut(NotConfigured, <<>>)
  ELSE LET limit0 == IF params.limit.t = "int" THEN params.limit.n ELSE 5
           limit == Max2(1, Min2(limit0, 50))
           data == make_request(outcome)
       IN  ToolOut(format_companies_list(
                     IF is_list(data) THEN data ELSE JList(data.data),
                     "TOP COMPANIES BY MARKET CAP"),
                   <<Req("companies/top/", limit)>>)

get_companies_by_subsector(params, client, outcome) ==
  IF ~client THEN ToolOut(NotConfigured, <<>>)
  ELSE LET limit0 == IF params.limit.t = "int" THEN params.limit.n ELSE 20
           limit == Max2(1, Min2(limit0, 200))
       IN  ToolOut(format_companies_list(make_request(outcome), "COMPANIES IN SUBSECTOR"),
                   <<Req("companies/?sub_sector", limit)>>)

get_companies_by_index(params, client, outcome) ==
  IF ~client THEN ToolOut(NotConfigured, <<>>)
  ELSE LET limit0 == IF params.limit.t = "int" THEN params.limit.n ELSE 20
           limit == Max2(1, Min2(limit0, 200))
       IN  ToolOut(format_companies_list(make_request(outcome), "COMPANIES IN INDEX"),
                   <<Req("index/", limit)>>)

get_subsector_report(params, client, outcome) ==
  IF ~client THEN ToolOut(NotConfigured, <<>>)
  ELSE LET data == make_request(outcome)
       IN  ToolOut(IF has_error(data) THEN ErrorText(data.error)
                   ELSE <<"Subsector Report", "fields">>,
                   <<Req("subsector/report/", 0)>>)

get_company_segments(params, client, outcome) ==
  IF ~client THEN ToolOut(NotConfigured, <<>>)
  ELSE LET data == make_request(outcome)
       IN  ToolOut(IF has_error(data) THEN ErrorText(data.error)
                   ELSE <<"Business Segments", "segments">>,
                   <<Req("company/get-segments/", 0)>>)

get_market_news(params, client, outcome) ==
  IF ~client THEN ToolOut(NotConfigured, <<>>)
  ELSE ToolOut(format_news(make_request(outcome)), <<Req("news/", 0)>>)

\* an item of the quarterly list passes the quarter/year filter
QuarterlyItemMatches(item, quarter, year) ==
  /\ (Truthy(quarter) => item.quarter = quarter.n)
  /\ (Truthy(year) => item.year = year.n)

\* get_quarterly_financials; the items carry their quarter and year (the
\* date parsing that derives them from the provider's fields is left out)
get_quarterly_financials(params, client, outcome) ==
  IF ~client THEN ToolOut(NotConfigured, <<>>)
  ELSE LET quarter == params.quarter
           year == IF Truthy(quarter) /\ ~Truthy(params.year)
                   THEN PyInt(current_year) ELSE params.year
           data == make_request(outcome)
           filtered_data ==
             SelectSeq(data.items,
                       LAMBDA item : QuarterlyItemMatches(item, quarter, year))
           result ==
             IF is_list(data) /\ (Truthy(quarter) \/ Truthy(year))
             THEN IF filtered_data # <<>>
                  THEN <<"\n", "QUARTERLY FINANCIAL DATA", "json", "\n">>
                  ELSE <<"\n", ERROR_MARKER, " Data tidak ditemukan", "\n">>
             ELSE <<"\n", "QUARTERLY FINANCIAL DATA", "Period: Last 8 Quarters",
                    IF has_error(data) THEN data.error ELSE "json", "\n">>
       IN  ToolOut(SelectSeq(result, LAMBDA f : f # "\n"),
                   <<Req("financials/quarterly/", 0)>>)

(***************************************************************************)
(* The Tool Executor (execute_tool).                                       *)
(***************************************************************************)
DispatchTags ==
  { "stock_info", "quarterly_financials", "company_segments", "market_news",
    "top_market_cap", "companies_by_index", "companies_subsector",
    "subsector_report", "idx_market_cap_history" }

\* tool.invoke(params) rejects a dict that lacks a required argument
ParamsAccepted(intent, params) ==
  CASE intent \in {"stock_info", "quarterly_financials", "company_segments"}
         -> params.ticker.t = "str"
    [] intent = "companies_by_index" -> params.index.t = "str"
    [] intent \in {"companies_subsector", "subsector_report"}
         -> params.subsector.t = "str"
    [] intent = "idx_market_cap_history" -> FALSE
    [] OTHER -> TRUE

InvokeTool(intent, params, client, outcome) ==
  CASE intent = "stock_info" -> get_stock_info(params, client, outcome)
    [] intent = "quarterly_financials" -> get_quarterly_financials(params, client, outcome)
    [] intent = "company_segments" -> get_company_segments(params, client, outcome)
    [] intent = "market_news" -> get_market_news(params, client, outcome)
    [] intent = "top_market_cap" -> get_top_stocks_by_market_cap(params, client, outcome)
    [] intent = "companies_by_index" -> get_companies_by_index(params, client, outcome)
    [] intent = "companies_subsector" -> get_companies_by_subsector(params, client, outcome)
    [] intent = "subsector_report" -> get_subsector_report(params, client, outcome)

\* execute_tool returning its error message when the operation raises
execute_tool_ErrorText(intent, params, available, client, outcome) ==
  IF intent \notin DispatchTags
  THEN [val |-> None, reqs |-> <<>>, invoked |-> "", raised_inside |-> FALSE]
  ELSE IF ~available \/ ~ParamsAccepted(intent, params)
  THEN [val |-> <<ERROR_MARKER, " Error executing tool: ">>, reqs |-> <<>>,
        invoked |-> intent, raised_inside |-> TRUE]
  ELSE Bind(InvokeTool(intent, params, client, outcome), LAMBDA out :
         [val |-> out.val, reqs |-> out.reqs, invoked |-> intent,
          raised_inside |-> FALSE])

\* execute_tool.  available is SECTORS_AVAILABLE (the tools were imported),
\* client tells whether sectors_client exists.  invoked names the operation
\* called ("" for none); raised_inside tells that it raised and was caught.
execute_tool(intent, params, available, client, outcome) ==
  IF intent \notin DispatchTags
  THEN [val |-> None, reqs |-> <<>>, invoked |-> "", raised_inside |-> FALSE]
  ELSE IF ~available \/ ~ParamsAccepted(intent, params)
  THEN [val |-> None, reqs |-> <<>>, invoked |-> intent, raised_inside |-> TRUE]
  ELSE Bind(InvokeTool(intent, params, client, outcome), LAMBDA out :
         [val |-> out.val, reqs |-> out.reqs, invoked |-> intent,
          raised_inside |-> FALSE])

(***************************************************************************)
(* The Context Resolver (resolve_query_with_context).  requested tells     *)
(* whether a completion was requested.                                     *)
(***************************************************************************)
\* the resolver skipping the completion only for an empty history
resolve_query_with_context_EmptyHistoryOnly(user_input, chat_history, llm) ==
  IF chat_history = <<>>
  THEN [val |-> user_input, requested |-> FALSE]
  ELSE IF llm.kind = "text"
  THEN [val |-> strip(llm.text), requested |-> TRUE]
  ELSE [val |-> user_input, requested |-> TRUE]

\* the resolver returning an empty text when the completion fails
resolve_query_with_context_EmptyOnFailure(user_input, chat_history, llm) ==
  IF Len(chat_history) < 2
  THEN [val |-> user_input, requested |-> FALSE]
  ELSE IF llm.kind = "text"
  THEN [val |-> strip(llm.text), requested |-> TRUE]
  ELSE [val |-> <<>>, requested |-> TRUE]

resolve_query_with_context(user_input, chat_history, llm) ==
  IF Len(chat_history) < 2
  THEN [val |-> user_input, requested |-> FALSE]
  ELSE IF llm.kind = "text"
  THEN [val |-> strip(llm.text), requested |-> TRUE]
  ELSE [val |-> user_input, requested |-> TRUE]

(***************************************************************************)
(* The orchestration (run_agent).  stages lists the stages in the order    *)
(* they ran, tool_result is what execute_tool returned (NotRun when it did *)
(* not run), narrated is the payload embedded in the narration prompt      *)
(* (NotRun when no narration was requested).                               *)
(***************************************************************************)
NotRun == <<"not run">>

\* caught tells whether the except clause of run_agent took an exception
AgentOut(raised, val, cache, reqs, stages, resolved, intent, tool_result, tool_reqs, narrated) ==
  [raised |-> raised, caught |-> FALSE, val |-> val, cache |-> cache,
   reqs |-> reqs, stages |-> stages, resolved |-> resolved, intent |-> intent,
   tool_result |-> tool_result, tool_reqs |-> tool_reqs, narrated |-> narrated]

\* the composer's test without the look at the error marker
ShouldNarrate_NoMarkerTest(tool_result) ==
  /\ tool_result # None
  /\ tool_result # <<>>

\* the composer's test before narrating: a tool result that is neither
\* absent, nor empty, nor an error-marker string
ShouldNarrate(tool_result) ==
  /\ tool_result # None
  /\ tool_result # <<>>
  /\ ~startswith_marker(tool_result)

\* env holds the answers of the collaborators: resolver and narration
\* (completions), tool (the provider's answer to the tool) and fetch (its
\* answers to the company list requests)
RunAgentBody(user_input, chat_history, rag_context, available, client, cache, api, env) ==
  Bind(resolve_query_with_context(user_input, chat_history, env.resolver), LAMBDA res :
  Bind(detect_intent_and_route(res.val, chat_history, cache, api, env.fetch), LAMBDA d :
  LET resolved_query == res.val
      s1 == IF res.requested THEN <<"resolver", "completion">> ELSE <<"resolver">>
      s2 == s1 \o <<"router">>
  IN  IF d.raised
      THEN AgentOut(TRUE, None, d.cache, d.reqs, s2, resolved_query,
                    "raised", NotRun, <<>>, NotRun)
      ELSE IF d.val.tag = "unknown"
      THEN AgentOut(FALSE, None, d.cache, d.reqs, s2, resolved_query,
                    d.val.tag, NotRun, <<>>, NotRun)
      ELSE Bind(execute_tool(d.val.tag, d.val.params, available, client, env.tool),
                LAMBDA t :
           LET tool_result == t.val
               s3 == s2 \o <<"tool">>
           IN  IF ShouldNarrate(tool_result)
               THEN IF env.narration.kind = "raise"
                    THEN AgentOut(TRUE, None, d.cache, d.reqs \o t.reqs,
                                  s3 \o <<"composer", "completion">>,
                                  resolved_query, d.val.tag, tool_result, t.reqs,
                                  tool_result)
                    ELSE AgentOut(FALSE,
                                  IF env.narration.kind = "none" THEN None
                                  ELSE env.narration.text,
                                  d.cache, d.reqs \o t.reqs,
                                  s3 \o <<"composer", "completion">>,
                                  resolved_query, d.val.tag, tool_result, t.reqs,
                                  tool_result)
               ELSE AgentOut(FALSE, None, d.cache, d.reqs \o t.reqs, s3,
                             resolved_query, d.val.tag, tool_result, t.reqs, NotRun))))

\* run_agent without its except clause
run_agent_NoExcept(user_input, chat_history, rag_context, available, client, cache, api, env) ==
  RunAgentBody(user_input, chat_history, rag_context, available,
               client, cache, api, env)

\* run_agent: the body inside try/except Exception
run_agent(user_input, chat_history, rag_context, available, client, cache, api, env) ==
  Bind(RunAgentBody(user_input, chat_history, rag_context, available,
                    client, cache, api, env), LAMBDA r :
    IF r.raised THEN [r EXCEPT !.raised = FALSE, !.caught = TRUE, !.val = None]
    ELSE r)

(***************************************************************************)
(* The Financial-Query Classifier (is_financial_query).                    *)
(***************************************************************************)
\* router_passes counts the calls of detect_intent_and_route, router_reqs
\* lists the provider requests issued inside them
\* context_ticker is the ticker found in the recent turns, intent the pair
\* the router pass returned and router_cache the cache that pass started from
ClassifierOut(raised, val, cache, reqs, passes, router_reqs, context_ticker, intent, router_cache) ==
  [raised |-> raised, val |-> val, cache |-> cache, reqs |-> reqs,
   router_passes |-> passes, router_reqs |-> router_reqs,
   context_ticker |-> context_ticker, intent |-> intent,
   router_cache |-> router_cache]

\* no router pass came to an end
NoIntent == Intent("not run", NoParams)

\* the result of the classifier without the look at the intent
FinancialResult_NoIntentTest(has_financial_term, ticker, context_ticker, intent) ==
  \/ has_financial_term
  \/ ticker # None
  \/ context_ticker # None

\* result (line 480): a financial term, a ticker, a ticker in the recent
\* turns, or an intent other than unknown
FinancialResult(has_financial_term, ticker, context_ticker, intent) ==
  \/ has_financial_term
  \/ ticker # None
  \/ context_ticker # None
  \/ intent # "unknown"

is_financial_query(user_input, chat_history, available, cache, api, fetch) ==
  IF ~available THEN ClassifierOut(FALSE, FALSE, cache, <<>>, 0, <<>>, None, NoIntent, cache)
  ELSE Bind(FactsOf(user_input).has_financial_term, LAMBDA has_financial_term :
       Bind(extract_ticker(user_input, cache, api, fetch), LAMBDA e :
         IF e.raised THEN ClassifierOut(TRUE, FALSE, e.cache, e.reqs, 0, <<>>, None, NoIntent,
                                       e.cache)
         ELSE Bind(IF e.val = None /\ chat_history # <<>>
                   THEN Bind(Last5(chat_history), LAMBDA recent :
                          ContextTicker(recent, Len(recent), e.cache, api, fetch, e.reqs))
                   ELSE Returned(None, e.cache, e.reqs), LAMBDA c :
              IF c.raised THEN ClassifierOut(TRUE, FALSE, c.cache, c.reqs, 0, <<>>, None,
                                 NoIntent, c.cache)
              ELSE Bind(detect_intent_and_route(user_input, chat_history, c.cache, api, fetch),
                        LAMBDA d :
                     IF d.raised
                     THEN ClassifierOut(TRUE, FALSE, d.cache, c.reqs \o d.reqs, 1, d.reqs,
                                        c.val, NoIntent, c.cache)
                     ELSE ClassifierOut(FALSE,
                            FinancialResult(has_financial_term, e.val, c.val,
                                            d.val.tag),
                            d.cache, c.reqs \o d.reqs, 1, d.reqs,
                            c.val, d.val, c.cache)))))

(***************************************************************************)
(* The chat turn handler of the UI (ui/chat_interface.py).                 *)
(***************************************************************************)
\* the number of entries of seq equal to x
Count(seq, x) == Cardinality({i \in 1..Len(seq) : seq[i] = x})

\* get_bot_response_standard: the plain-chat completion; a failure of the
\* completion service becomes an error text
get_bot_response_standard(prompt, rag_context, llm) ==
  IF llm.kind = "raise" THEN StandardError ELSE llm.text

\* get_bot_response_with_agent: run_agent inside try/except
get_bot_response_with_agent(prompt, history, rag_context, available, client, cache, api, env) ==
  Bind(run_agent(prompt, history, rag_context, available, client, cache, api, env),
       LAMBDA r : IF r.raised THEN [r EXCEPT !.raised = FALSE, !.val = None] ELSE r)

\* handle_user_message up to the reply.  The result tells whether the
\* handler raised, the turns it appended, and which paths it took.
HandlerOut(raised, appended, cache, use_agent, agent_reply, standard_called, router_passes, router_reqs) ==
  [raised |-> raised, appended |-> appended, cache |-> cache,
   use_agent |-> use_agent, agent_reply |-> agent_reply,
   standard_called |-> standard_called,
   router_passes |-> router_passes, router_reqs |-> router_reqs]

handle_user_message(prompt, history, available, client, cache, api, env) ==
  LET user_turn == Msg("user", prompt)
      langchain_history == history \o <<user_turn>>
  IN  Bind(is_financial_query(prompt, langchain_history, available, cache, api, env.fetch),
           LAMBDA c :
      IF c.raised
      THEN HandlerOut(TRUE, <<user_turn>>, c.cache, FALSE, NotRun, FALSE,
                      c.router_passes, c.router_reqs)
      ELSE Bind(c.val /\ available, LAMBDA use_agent :
           Bind(IF use_agent
                THEN get_bot_response_with_agent(prompt, langchain_history, <<>>,
                       available, client, c.cache, api, env)
                ELSE [val |-> None, cache |-> c.cache, stages |-> <<>>,
                      reqs |-> <<>>, tool_reqs |-> <<>>], LAMBDA a :
           Bind(IF a.val = None
                THEN get_bot_response_standard(prompt, <<>>, env.standard)
                ELSE a.val, LAMBDA bot_reply :
             HandlerOut(FALSE, <<user_turn, Msg("assistant", bot_reply)>>,
                        a.cache, use_agent,
                        IF use_agent THEN a.val ELSE NotRun,
                        a.val = None,
                        c.router_passes + Count(a.stages, "router"),
                        c.router_reqs
                          \o SubSeq(a.reqs, 1, Len(a.reqs) - Len(a.tool_reqs)))))))

(***************************************************************************)
(* Arguments handed to execute_tool.                                       *)
(***************************************************************************)

\* (intent, params) pairs handed to execute_tool: what the router produces
\* for the texts, every dispatch tag without parameters, and unknown tags
ToolCalls ==
  {Route(t, k) : t \in ExampleTexts, k \in {None, <<"B","B","N","I">>}}
  \cup {Intent(tag, NoParams) : tag \in DispatchTags \cup {"unknown", "other"}}

(***************************************************************************)
(* The session store (utils/memory.py).  The file chat_history.json holds  *)
(* a mapping from session name to turn sequence; between open(.., "w") and *)
(* the dump the file is empty.  st stands for one browser session's        *)
(* st.session_state.                                                       *)
(***************************************************************************)
EmptyDict == <<>>

JsonFile(mapping) == [kind |-> "json", data |-> mapping]

\* the file right after open(HISTORY_FILE, "w"): truncated
TruncatedFile == [kind |-> "empty", data |-> EmptyDict]

\* sessions[key] = value
DictSet(mapping, key, value) ==
  [k \in DOMAIN mapping \cup {key} |-> IF k = key THEN value ELSE mapping[k]]

\* sessions.get(key, default)
DictGet(mapping, key, default) ==
  IF key \in DOMAIN mapping THEN mapping[key] ELSE default

\* "current_session" not in st.session_state
NoSession == <<"none", 0>>

FreshState == [current_session |-> NoSession, chat_history |-> <<>>]

\* f"Session - {timestamp}" with the timestamp formatted to the second;
\* now is the wall clock in seconds
SessionName(now) == <<"Session - ", now>>

\* load_all_chat_sessions: {} for a missing or empty file, else its content
load_all_chat_sessions(file) ==
  IF file.kind = "json" THEN file.data ELSE EmptyDict

\* save_all_chat_sessions: the file after the dump
save_all_chat_sessions(sessions) == JsonFile(sessions)

\* init_chat_history: the session state afterwards
init_chat_history(st, file, session_id) ==
  [st EXCEPT !.current_session = session_id,
             !.chat_history = DictGet(load_all_chat_sessions(file), session_id, <<>>)]

\* save_current_session writing the current session alone
save_current_session_CurrentOnly(st, file) ==
  IF st.current_session = NoSession THEN file
  ELSE save_all_chat_sessions(DictSet(EmptyDict, st.current_session, st.chat_history))

\* save_current_session: the file afterwards
save_current_session(st, file) ==
  IF st.current_session = NoSession THEN file
  ELSE save_all_chat_sessions(
         DictSet(load_all_chat_sessions(file), st.current_session, st.chat_history))

\* create_new_session: the file and the session state afterwards, and the
\* name returned
create_new_session(st, file, now) ==
  [file |-> save_all_chat_sessions(
              DictSet(load_all_chat_sessions(file), SessionName(now), <<>>)),
   st |-> [st EXCEPT !.current_session = SessionName(now), !.chat_history = <<>>],
   name |-> SessionName(now)]

\* main() up to the chat interface (main_window.py 37-40): a session is
\* created when the browser session has none, and the chat history is
\* loaded from the file
EnterPage(st, file, now) ==
  Bind(IF st.current_session = NoSession THEN create_new_session(st, file, now)
       ELSE [file |-> file, st |-> st, name |-> st.current_session], LAMBDA c :
    [file |-> c.file, st |-> init_chat_history(c.st, c.file, c.st.current_session)])

(***************************************************************************)
(* State.                                                                  *)
(***************************************************************************)
VARIABLES
  SECTORS_AVAILABLE,  \* agent_service: the tools and the client class were imported
  sectors_api,        \* agent_service: TRUE when sectors_api is a client, FALSE when None
  sectors_client,     \* sectors_tools: TRUE when sectors_client is a client
  COMPANY_CACHE,      \* agent_service._COMPANY_CACHE
  session_state,      \* st.session_state of each browser session
  run,                \* each browser session's script run: its position in
                      \* save_current_session and the mapping it loaded
  HISTORY_FILE,       \* the file chat_history.json
  clock,              \* the wall clock, in seconds
  call                \* the entry point called last, its arguments and its outcome

vars ==
  << SECTORS_AVAILABLE, sectors_api, sectors_client, COMPANY_CACHE,
     session_state, run, HISTORY_FILE, clock, call >>

\* the browser sessions: the one the chat UI is followed in, and a second
\* one opened against the same process
Main == "main"

Peer == "peer"

Browsers == {Main, Peer}

chat_history == session_state[Main].chat_history

current_session == session_state[Main].current_session

Idle == [pc |-> "idle", sessions |-> EmptyDict, saved |-> FALSE]

NoCall == [op |-> "none"]

\* The state after the modules are imported and main() has run once: the
\* import of the tools succeeded or not, the API key is set or not, the
\* company cache is None and a fresh, empty session is current.
Init ==
  /\ SECTORS_AVAILABLE \in BOOLEAN
  /\ sectors_api \in BOOLEAN
  /\ sectors_api => SECTORS_AVAILABLE
  /\ sectors_client = sectors_api
  /\ COMPANY_CACHE = CacheNone
  /\ clock = 1
  /\ \E c \in {EnterPage(FreshState, [kind |-> "missing", data |-> EmptyDict], 1)} :
       /\ session_state = [b \in Browsers |-> IF b = Main THEN c.st ELSE FreshState]
       /\ HISTORY_FILE = c.file
  /\ run = [b \in Browsers |-> Idle]
  /\ call = NoCall

\* the answers of the provider to a company list fetch, when the call can
\* fetch at all (the cache is None and there is a client)
FetchChoices(envs) ==
  IF COMPANY_CACHE.is_none /\ sectors_api THEN envs ELSE {CHOOSE e \in envs : TRUE}

Process == << SECTORS_AVAILABLE, sectors_api, sectors_client >>

Session == << session_state, run, HISTORY_FILE, clock >>

(***************************************************************************)
(* The entry points of the core, each called by an arbitrary caller.       *)
(***************************************************************************)
CallGetAllCompanies ==
  /\ call = NoCall
  /\ \E fetch \in FetchChoices(AllFetchEnvs) :
       \E r \in {get_all_companies(COMPANY_CACHE, sectors_api, fetch)} :
           /\ COMPANY_CACHE' = r.cache
           /\ call' = [op |-> "get_all_companies", raised |-> FALSE,
                       val |-> r.ret, reqs |-> r.reqs, cache_before |-> COMPANY_CACHE]
  /\ UNCHANGED << Process, Session >>

CallExtractTicker ==
  /\ call = NoCall
  /\ \E text \in Texts, fetch \in FetchChoices(FetchEnvs) :
       \E r \in {extract_ticker(text, COMPANY_CACHE, sectors_api, fetch)} :
           /\ COMPANY_CACHE' = r.cache
           /\ call' = [op |-> "extract_ticker", text |-> text,
                       raised |-> r.raised, val |-> r.val, reqs |-> r.reqs,
                       cache_before |-> COMPANY_CACHE]
  /\ UNCHANGED << Process, Session >>

CallDetectIntentAndRoute ==
  /\ call = NoCall
  /\ \E text \in Texts, history \in AgentHistories,
        fetch \in FetchChoices(FetchEnvs) :
       \E r \in {detect_intent_and_route(text, history, COMPANY_CACHE,
                                          sectors_api, fetch)} :
           /\ COMPANY_CACHE' = r.cache
           /\ call' = [op |-> "detect_intent_and_route", text |-> text,
                       history |-> history, fetch |-> fetch,
                       raised |-> r.raised, val |-> r.val, reqs |-> r.reqs,
                       ticker |-> r.ticker, cache_before |-> COMPANY_CACHE]
  /\ UNCHANGED << Process, Session >>

CallExecuteTool ==
  /\ call = NoCall
  /\ \E c \in ToolCalls, outcome \in ToolOutcomes :
       \E r \in {execute_tool(c.tag, c.params, SECTORS_AVAILABLE,
                               sectors_client, outcome)} :
           call' = [op |-> "execute_tool", intent |-> c.tag, params |-> c.params,
                    outcome |-> outcome.status, raised |-> FALSE, val |-> r.val,
                    reqs |-> r.reqs, invoked |-> r.invoked,
                    raised_inside |-> r.raised_inside]
  /\ UNCHANGED << Process, COMPANY_CACHE, Session >>

CallResolveQuery ==
  /\ call = NoCall
  /\ \E text \in AgentTexts, history \in Histories, llm \in ResolverCompletions :
       \E r \in {resolve_query_with_context(text, history, llm)} :
           call' = [op |-> "resolve_query_with_context", text |-> text,
                    history |-> history, llm |-> llm.kind, raised |-> FALSE,
                    val |-> r.val, requested |-> r.requested]
  /\ UNCHANGED << Process, COMPANY_CACHE, Session >>

AgentEnvs(fetches) ==
  [resolver : ResolverCompletions, narration : Completions,
   tool : AgentToolOutcomes, fetch : fetches]

CallRunAgent ==
  /\ call = NoCall
  /\ \E text \in AgentTexts, history \in AgentHistories,
        env \in AgentEnvs(FetchChoices(FetchEnvs)) :
       \E r \in {run_agent(text, history, <<>>, SECTORS_AVAILABLE, sectors_client,
                            COMPANY_CACHE, sectors_api, env)} :
           /\ COMPANY_CACHE' = r.cache
           /\ call' = [op |-> "run_agent", text |-> text, history |-> history,
                       resolver |-> env.resolver.kind,
                       tool_status |-> env.tool.status,
                       narration |-> env.narration.kind,
                       raised |-> r.raised, caught |-> r.caught, val |-> r.val,
                       reqs |-> r.reqs, stages |-> r.stages, resolved |-> r.resolved,
                       intent |-> r.intent, tool_result |-> r.tool_result,
                       tool_reqs |-> r.tool_reqs,
                       narrated |-> r.narrated, cache_before |-> COMPANY_CACHE]
  /\ UNCHANGED << Process, Session >>

CallIsFinancialQuery ==
  /\ call = NoCall
  /\ \E text \in ClassifierTexts, history \in Histories,
        fetch \in FetchChoices(FetchEnvs) :
       \E r \in {is_financial_query(text, history, SECTORS_AVAILABLE,
                                   COMPANY_CACHE, sectors_api, fetch)} :
           /\ COMPANY_CACHE' = r.cache
           /\ call' = [op |-> "is_financial_query", text |-> text,
                       history |-> history, fetch |-> fetch,
                       raised |-> r.raised, val |-> r.val,
                       reqs |-> r.reqs, router_passes |-> r.router_passes,
                       context_ticker |-> r.context_ticker,
                       intent |-> r.intent, router_cache |-> r.router_cache,
                       cache_before |-> COMPANY_CACHE]
  /\ UNCHANGED << Process, Session >>

\* the caller takes the result; the next call can start
Return ==
  /\ call # NoCall
  /\ call' = NoCall
  /\ UNCHANGED << Process, COMPANY_CACHE, Session >>

Next ==
  \/ CallGetAllCompanies
  \/ CallExtractTicker
  \/ CallDetectIntentAndRoute
  \/ CallExecuteTool
  \/ CallResolveQuery
  \/ CallRunAgent
  \/ CallIsFinancialQuery
  \/ Return

Spec == Init /\ [][Next]_vars

(***************************************************************************)
(* The chat UI: one handle_user_message per submitted prompt.              *)
(***************************************************************************)
Prompts == { T_halo_apa_kabar, T_top5, T_hi, T_apa_itu }

UiEnvs(fetches) ==
  [resolver : {Completion("text", T_apa_itu), Completion("raise", <<>>)},
   narration : {Completion("text", R_narration), Completion("text", <<>>),
                Completion("none", <<>>), Completion("raise", <<>>)},
   tool : {Http("200", JList(<<QItem(2, 2024)>>)), RateLimited},
   fetch : fetches, standard : StandardCompletions]

\* One script run with a submitted prompt in browser session b: main()
\* loads the chat history of the current session from the file,
\* handle_user_message appends the turns and, unless it raised, ends with
\* save_current_session.
SubmitPrompt(b, prompts, envs) ==
  /\ run[b].pc = "idle"
  /\ session_state[b].current_session # NoSession
  /\ \E st0 \in {EnterPage(session_state[b], HISTORY_FILE, clock).st} :
       /\ Len(st0.chat_history) < 2 * MaxTurns
       /\ \E prompt \in prompts, env \in envs :
            \E r \in {handle_user_message(prompt, st0.chat_history, SECTORS_AVAILABLE,
                                         sectors_client, COMPANY_CACHE, sectors_api, env)} :
              \E st1 \in {[st0 EXCEPT !.chat_history = @ \o r.appended]} :
                /\ session_state' = [session_state EXCEPT ![b] = st1]
                /\ COMPANY_CACHE' = r.cache
                /\ HISTORY_FILE' = IF r.raised THEN HISTORY_FILE
                                   ELSE save_current_session(st1, HISTORY_FILE)
                /\ call' = [op |-> "handle_user_message", browser |-> b,
                            prompt |-> prompt,
                            history_before |-> st0.chat_history,
                            sessions_before |-> load_all_chat_sessions(HISTORY_FILE),
                            raised |-> r.raised,
                            use_agent |-> r.use_agent, agent_reply |-> r.agent_reply,
                            standard_called |-> r.standard_called,
                            standard |-> env.standard.kind,
                            standard_reply |->
                              get_bot_response_standard(prompt, <<>>, env.standard),
                            router_passes |-> r.router_passes,
                            router_reqs |-> r.router_reqs,
                            cache_before |-> COMPANY_CACHE]
  /\ UNCHANGED << Process, run, clock >>

HandleUserMessage == SubmitPrompt(Main, Prompts, UiEnvs(FetchChoices(FetchEnvs)))

NextUI == HandleUserMessage

SpecUI == Init /\ [][NextUI]_vars

(***************************************************************************)
(* The sessions of the chat UI: script runs of main() taken one at a time. *)
(* A script run is triggered by opening the page, by a sidebar button or   *)
(* by a submitted prompt; the clock advances between and during runs.      *)
(***************************************************************************)
MaxClock == 2

SessionPrompts == { T_hi }

SessionEnvs ==
  [resolver : {Completion("text", T_apa_itu)},
   narration : {Completion("text", R_narration)},
   tool : {RateLimited},
   fetch : {CHOOSE e \in FetchEnvs : TRUE},
   standard : {Completion("text", R_plain)}]

\* the first script run of a browser session: main() creates a session
OpenPage(b) ==
  /\ run[b].pc = "idle"
  /\ session_state[b].current_session = NoSession
  /\ \E c \in {EnterPage(session_state[b], HISTORY_FILE, clock)} :
       /\ session_state' = [session_state EXCEPT ![b] = c.st]
       /\ HISTORY_FILE' = c.file
       /\ call' = [op |-> "create_new_session", browser |-> b,
                   name |-> c.st.current_session,
                   sessions_before |-> load_all_chat_sessions(HISTORY_FILE)]
  /\ UNCHANGED << Process, COMPANY_CACHE, run, clock >>

\* the New Chat button of the sidebar (sidebar.py 12-15), and the script
\* run that st.rerun() starts
NewChat(b) ==
  /\ run[b].pc = "idle"
  /\ session_state[b].current_session # NoSession
  /\ \E c \in {create_new_session(session_state[b], HISTORY_FILE, clock)} :
       \E st1 \in {init_chat_history(c.st, c.file, c.name)} :
         /\ session_state' = [session_state EXCEPT
                                ![b] = EnterPage(st1, c.file, clock).st]
         /\ HISTORY_FILE' = c.file
         /\ call' = [op |-> "create_new_session", browser |-> b, name |-> c.name,
                     sessions_before |-> load_all_chat_sessions(HISTORY_FILE)]
  /\ UNCHANGED << Process, COMPANY_CACHE, run, clock >>

\* the button of a listed session (sidebar.py 26-34)
SelectSession(b) ==
  /\ run[b].pc = "idle"
  /\ session_state[b].current_session # NoSession
  /\ \E name \in DOMAIN load_all_chat_sessions(HISTORY_FILE) :
       /\ session_state' =
            [session_state EXCEPT
               ![b] = EnterPage(init_chat_history(session_state[b], HISTORY_FILE, name),
                                HISTORY_FILE, clock).st]
       /\ call' = [op |-> "init_chat_history", browser |-> b, name |-> name]
  /\ UNCHANGED << Process, COMPANY_CACHE, run, HISTORY_FILE, clock >>

Chat(b) == SubmitPrompt(b, SessionPrompts, SessionEnvs)

\* a second passes
Tick ==
  /\ clock < MaxClock
  /\ clock' = clock + 1
  /\ UNCHANGED << Process, COMPANY_CACHE, session_state, run, HISTORY_FILE, call >>

NextSessions ==
  \/ \E b \in Browsers : OpenPage(b)
  \/ \E b \in Browsers : NewChat(b)
  \/ \E b \in Browsers : SelectSession(b)
  \/ \E b \in Browsers : Chat(b)
  \/ Tick

SpecSessions == Init /\ [][NextSessions]_vars

(***************************************************************************)
(* Two browser sessions served at once: each script run is a thread of the *)
(* process, and the steps of save_current_session of one run interleave    *)
(* with the steps of the other.                                            *)
(***************************************************************************)
\* a script run with a submitted prompt up to the call of
\* save_current_session (chat_interface.py 130-186)
Turn(b) ==
  /\ run[b].pc = "idle"
  /\ session_state[b].current_session # NoSession
  /\ \E st0 \in {EnterPage(session_state[b], HISTORY_FILE, clock).st} :
       /\ Len(st0.chat_history) < 2 * MaxTurns
       /\ \E prompt \in SessionPrompts, env \in SessionEnvs :
            \E r \in {handle_user_message(prompt, st0.chat_history, SECTORS_AVAILABLE,
                                         sectors_client, COMPANY_CACHE, sectors_api, env)} :
              /\ session_state' =
                   [session_state EXCEPT ![b] = [st0 EXCEPT !.chat_history = @ \o r.appended]]
              /\ COMPANY_CACHE' = r.cache
              /\ run' = [run EXCEPT ![b].pc = IF r.raised THEN "idle" ELSE "save"]
              /\ call' = [op |-> "handle_user_message", browser |-> b,
                          prompt |-> prompt, history_before |-> st0.chat_history,
                          raised |-> r.raised]
  /\ UNCHANGED << Process, HISTORY_FILE, clock >>

\* save_current_session, memory.py 42-44: the mapping is loaded and the
\* current session is set in it
SaveLoad(b) ==
  /\ run[b].pc = "save"
  /\ run' = [run EXCEPT
               ![b].pc = "open",
               ![b].sessions = DictSet(load_all_chat_sessions(HISTORY_FILE),
                                       session_state[b].current_session,
                                       session_state[b].chat_history)]
  /\ UNCHANGED << Process, COMPANY_CACHE, session_state, HISTORY_FILE, clock, call >>

\* save_all_chat_sessions, memory.py 25: the file is opened for writing
SaveOpen(b) ==
  /\ run[b].pc = "open"
  /\ HISTORY_FILE' = TruncatedFile
  /\ run' = [run EXCEPT ![b].pc = "dump"]
  /\ UNCHANGED << Process, COMPANY_CACHE, session_state, clock, call >>

\* save_all_chat_sessions, memory.py 26: the mapping is written
SaveDump(b) ==
  /\ run[b].pc = "dump"
  /\ HISTORY_FILE' = save_all_chat_sessions(run[b].sessions)
  /\ run' = [run EXCEPT ![b] = [Idle EXCEPT !.saved = TRUE]]
  /\ UNCHANGED << Process, COMPANY_CACHE, session_state, clock, call >>

NextTabs ==
  \/ \E b \in Browsers : OpenPage(b)
  \/ \E b \in Browsers : Turn(b)
  \/ \E b \in Browsers : SaveLoad(b)
  \/ \E b \in Browsers : SaveOpen(b)
  \/ \E b \in Browsers : SaveDump(b)
  \/ Tick

SpecTabs == Init /\ [][NextTabs]_vars

(***************************************************************************)
(* Properties.                                                             *)
(***************************************************************************)
BBCA == <<"B","B","C","A">>

\* the 4-letter uppercase words of text that are not in the stoplist
TickerWords(text) ==
  {SubSeq(text, i, i + 3) : i \in {x \in 1..Len(text) : TickerTokenAt(text, x)}}
  \ Range(common_words)

\* the alias keys text contains, as indexes of quick_map
KeysIn(text) ==
  {n \in 1..Len(quick_map) : Contains(lower(text), quick_map[n].key)}

\* C1: every call of handle_user_message ends with chat_history extended by
\* exactly the user turn followed by exactly one assistant turn, whatever
\* the classifier, the agent pipeline and the completion service do.
C1_UserAlwaysReceivesReply ==
  call.op = "handle_user_message" =>
    /\ Len(chat_history) = Len(call.history_before) + 2
    /\ SubSeq(chat_history, 1, Len(call.history_before)) = call.history_before
    /\ chat_history[Len(chat_history) - 1] = Msg("user", call.prompt)
    /\ chat_history[Len(chat_history)].role = "assistant"

\* C2: fallback invariant.  When execute_tool ran and returned absent or a
\* string starting with the error marker, run_agent returns absent and
\* requests no narration; and whatever is embedded in a narration prompt or
\* returned as the reply never starts with the error marker.
C2_FallbackInvariant ==
  call.op = "run_agent" =>
    /\ (/\ InSeq("tool", call.stages)
        /\ (call.tool_result = None \/ startswith_marker(call.tool_result)))
       => /\ call.val = None
          /\ call.narrated = NotRun
          /\ ~InSeq("composer", call.stages)
    /\ ~startswith_marker(call.narrated)
    /\ ~startswith_marker(call.val)

\* a provider failure on the tool's request became an error-marker string
\* and run_agent fell back without narrating
C2_Witness ==
  /\ call.op = "run_agent"
  /\ call.tool_status \in HttpFailures
  /\ call.tool_reqs # <<>>
  /\ startswith_marker(call.tool_result)
  /\ call.val = None
  /\ call.narrated = NotRun

\* C3: for every intent tag of the dispatch table, when the provider answers
\* the tool's request with an error mapping, the tool result is an
\* error-marker string, run_agent returns absent and nothing is narrated.
C3_ProviderErrorIsMarked ==
  (/\ call.op = "run_agent"
   /\ call.intent \in DispatchTags
   /\ call.tool_reqs # <<>>
   /\ call.tool_status \in HttpFailures)
  => /\ startswith_marker(call.tool_result)
     /\ call.val = None
     /\ call.narrated = NotRun

\* C4: no public entry point of the core raises, for every text, history and
\* content of the company cache.
C4_NoEntryPointRaises ==
  call.op \in {"is_financial_query", "detect_intent_and_route", "extract_ticker",
               "get_all_companies", "execute_tool", "run_agent",
               "resolve_query_with_context"}
  => ~call.raised

\* C5: run_agent never raises, and an exception raised in one of its stages
\* makes it return absent.
C5_RunAgentNeverRaises ==
  call.op = "run_agent" =>
    /\ ~call.raised
    /\ call.caught => call.val = None

\* a stage of run_agent raised
C5_Witness ==
  /\ call.op = "run_agent"
  /\ call.caught
  /\ call.val = None

\* C6: when the data provider is not configured (no provider client),
\* is_financial_query returns false for every text and every history.
C6_ClassifierFalseWithoutProvider ==
  (call.op = "is_financial_query" /\ ~sectors_api)
  => (~call.raised /\ call.val = FALSE)

\* C7: detect_intent_and_route("halo apa kabar") returns tag unknown with an
\* empty parameter mapping.
C7_GreetingIsUnknown ==
  (call.op = "detect_intent_and_route" /\ call.text = T_halo_apa_kabar)
  => (~call.raised /\ call.val = Intent("unknown", NoParams))

\* C8 as stated: for every key of the alias table that the text contains in
\* any letter case, extract_ticker returns the ticker the table maps that
\* key to.
C8_EveryAliasKeyWins ==
  call.op = "extract_ticker" =>
    \A n \in KeysIn(call.text) :
      ~call.raised /\ call.val = quick_map[n].ticker

\* C8 as amended: for every text that contains an alias key in any letter
\* case, extract_ticker returns the ticker of the first key, in table order,
\* that the text contains, whatever other keys or 4-letter tokens it holds
\* and whatever the company cache holds.
C8_FirstAliasKeyWins ==
  call.op = "extract_ticker" =>
    \A n \in KeysIn(call.text) :
      (\A m \in KeysIn(call.text) : n <= m)
      => /\ ~call.raised
         /\ call.val = quick_map[n].ticker
         /\ call.reqs = <<>>

\* a text with the keys "bca" and "bri" and the 4-letter token "BBNI" or
\* "Bank" gave the ticker of "bca"
C8_Witness ==
  /\ call.op = "extract_ticker"
  /\ {1, 4} \subseteq KeysIn(call.text)
  /\ SearchTickerToken(upper(call.text)) # None
  /\ call.val = BBCA

\* C9: for every text that matches no alias key and contains a 4-letter
\* uppercase word that is not in the stoplist, extract_ticker returns such a
\* word, whatever 4-letter tokens precede it.
C9_ExplicitTokenAnywhere ==
  (/\ call.op = "extract_ticker"
   /\ KeysIn(call.text) = {}
   /\ TickerWords(call.text) # {})
  => (~call.raised /\ call.val \in TickerWords(call.text))

\* C10: for every text with a top-ness keyword and a market-cap or entity
\* keyword, detect_intent_and_route returns top_market_cap, whether or not
\* extract_ticker finds a ticker and whatever other keywords are present.
C10_TopRuleWins ==
  (call.op = "detect_intent_and_route" /\ IsTopRequest(lower(call.text)))
  => (~call.raised /\ call.val.tag = "top_market_cap")

\* the first integer literal of text, -1 when it has none
FirstInteger(text) == SearchInt(text)

\* C11 as stated: whenever detect_intent_and_route returns top_market_cap,
\* its limit is in 1..50: the first integer literal of the text clamped to
\* that range, and 5 when the text has no integer literal.
C11_LimitClampedTo1And50 ==
  (/\ call.op = "detect_intent_and_route"
   /\ ~call.raised
   /\ call.val.tag = "top_market_cap")
  => /\ call.val.params.limit.t = "int"
     /\ call.val.params.limit.n \in 1..50
     /\ call.val.params.limit.n =
          (IF FirstInteger(call.text) = -1 THEN 5
           ELSE Max2(1, Min2(FirstInteger(call.text), 50)))

\* C11 as amended: whenever detect_intent_and_route returns top_market_cap,
\* its limit is in 0..50: the first integer literal of the text capped at 50
\* (0 stays 0), and 5 when the text has no integer literal; the floor to 1
\* is applied by get_top_stocks_by_market_cap, whose request to the provider
\* asks for a number of stocks in 1..50.
C11_LimitCappedAt50 ==
  /\ (/\ call.op = "detect_intent_and_route"
      /\ ~call.raised
      /\ call.val.tag = "top_market_cap")
     => /\ call.val.params.limit.t = "int"
        /\ call.val.params.limit.n \in 0..50
        /\ call.val.params.limit.n =
             (IF FirstInteger(call.text) = -1 THEN 5
              ELSE Min2(FirstInteger(call.text), 50))
  /\ (/\ call.op = "execute_tool"
      /\ call.intent = "top_market_cap"
      /\ call.reqs # <<>>)
     => /\ call.reqs[1].n_stock \in 1..50
        /\ call.params.limit.t = "int"
           => call.reqs[1].n_stock = Max2(1, Min2(call.params.limit.n, 50))

\* the router returned top_market_cap with limit 0 for a text asking for 0
C11_Witness ==
  /\ call.op = "detect_intent_and_route"
  /\ ~call.raised
  /\ call.val.tag = "top_market_cap"
  /\ FirstInteger(call.text) = 0
  /\ call.val.params.limit.n = 0

\* a text in the case of the quarterly sub-rule: a ticker was extracted, the
\* top rule does not apply and a quarterly keyword is present
QuarterlyCase ==
  /\ call.op = "detect_intent_and_route"
  /\ ~call.raised
  /\ call.ticker # None
  /\ ~IsTopRequest(lower(call.text))
  /\ ContainsAny(lower(call.text), quarterly_words)

\* C12 as stated: for every text from which a ticker is extracted, that does
\* not trigger the top rule and that contains a quarterly keyword,
\* detect_intent_and_route returns quarterly_financials with that ticker,
\* the quarter and the year each possibly null.
C12_QuarterlyKeywordRoutes ==
  QuarterlyCase =>
    /\ call.val.tag = "quarterly_financials"
    /\ call.val.params.ticker = PyStr(call.ticker)

\* C12 as amended: for such a text detect_intent_and_route returns
\* quarterly_financials with that ticker exactly when a non-zero quarter
\* digit or a year 20xx is read from the text; the quarter is then that
\* digit or null, the year is the year read, or the current year when only a
\* quarter is read.  With neither, the text falls through to the segment,
\* news and stock_info sub-rules.
C12_QuarterlyNeedsQuarterOrYear ==
  QuarterlyCase =>
    LET q == SearchQuarter(lower(call.text))
        y == SearchYear(call.text)
    IN  IF q > 0 \/ y # -1
        THEN /\ call.val.tag = "quarterly_financials"
             /\ call.val.params.ticker = PyStr(call.ticker)
             /\ call.val.params.quarter = (IF q = -1 THEN PyNone ELSE PyInt(q))
             /\ call.val.params.year =
                  (IF y # -1 THEN PyInt(y) ELSE PyInt(current_year))
        ELSE /\ call.val.tag \in {"company_segments", "market_news", "stock_info"}
             /\ PyStr(call.ticker) \in {call.val.params.ticker, call.val.params.query}

\* a quarterly request with a year and no quarter
C12_Witness ==
  /\ QuarterlyCase
  /\ SearchQuarter(lower(call.text)) = -1
  /\ call.val.tag = "quarterly_financials"
  /\ call.val.params.quarter = PyNone
  /\ call.val.params.year = PyInt(2024)

\* a text in the case of the news rules: a news keyword is present, the top
\* rule does not apply, and neither the quarterly nor the segment sub-rule
\* of the ticker branch takes the text
NewsCase ==
  /\ call.op = "detect_intent_and_route"
  /\ ContainsAny(lower(call.text), news_words)
  /\ ~IsTopRequest(lower(call.text))
  /\ ~(/\ call.ticker # None
       /\ \/ ContainsAny(lower(call.text), segment_words)
          \/ /\ ContainsAny(lower(call.text), quarterly_words)
             /\ (SearchQuarter(lower(call.text)) > 0 \/ SearchYear(call.text) # -1))

\* C13: for every text with a news keyword that matches neither the top rule
\* nor the quarterly or segment sub-rules, detect_intent_and_route returns
\* market_news with limit 10, with the extracted ticker as query when a
\* ticker is extracted and with a null query only when none is.
C13_NewsWithTickerQuery ==
  NewsCase =>
    /\ ~call.raised
    /\ call.val.tag = "market_news"
    /\ call.val.params.limit = PyInt(10)
    /\ call.val.params.query =
         (IF call.ticker # None THEN PyStr(call.ticker) ELSE PyNone)

\* the (candidate, company) pairs of the fuzzy stage for the text of the
\* call: the candidates of the text and the companies of the cache the call
\* leaves behind
FuzzyPairs ==
  IF COMPANY_CACHE.is_none THEN {}
  ELSE Range(FactsOf(call.text).names) \X Range(COMPANY_CACHE.companies)

\* the pairs with the highest score of all
BestPairs ==
  {p \in FuzzyPairs :
     \A o \in FuzzyPairs : ~FracGT(StepOf(o[1], o[2]).score, StepOf(p[1], p[2]).score)}

\* the call went through the fuzzy stage and returned
FuzzyCase ==
  /\ call.op = "extract_ticker"
  /\ ~call.raised
  /\ FactsOf(call.text).quick = None
  /\ FactsOf(call.text).explicit = None

\* C14: when the alias and explicit-token stages find nothing, the ticker
\* extract_ticker returns is the one with the highest score over all
\* (candidate, company) pairs, returned only if that score exceeds 0.70; a
\* lower-scoring match of an earlier candidate never wins over a
\* higher-scoring match of a later one.
C14_GlobalBestScoreWins ==
  FuzzyCase =>
    IF \E p \in BestPairs : FracGT(StepOf(p[1], p[2]).score, AcceptScore)
    THEN \E p \in BestPairs : call.val = StepOf(p[1], p[2]).ticker
    ELSE call.val = None

\* C15: with a company cache that contains the record ("PT Bank Central
\* Asia", "BBCA"), extract_ticker("saham Bank Central Asia gimana?") returns
\* "BBCA" through the fuzzy stage, whatever other records the cache holds.
C15_BankCentralAsiaResolves ==
  (/\ call.op = "extract_ticker"
   /\ call.text = T_bank_central_asia
   /\ ~COMPANY_CACHE.is_none
   /\ InSeq(C_BBCA, COMPANY_CACHE.companies))
  => /\ ~call.raised
     /\ call.val = BBCA
     /\ FactsOf(call.text).quick = None
     /\ FactsOf(call.text).explicit = None

\* what detect_intent_and_route gives for the text of the classifier call,
\* called in the state the classifier was called in
RouterAlone ==
  detect_intent_and_route(call.text, call.history, call.cache_before,
                          sectors_api, call.fetch)

\* C16: classifier monotonicity.  When the provider is available, for every
\* text and history for which detect_intent_and_route returns a tag other
\* than unknown, is_financial_query returns true.
C16_ClassifierMonotonicity ==
  (/\ call.op = "is_financial_query"
   /\ SECTORS_AVAILABLE
   /\ ~RouterAlone.raised
   /\ RouterAlone.val.tag # "unknown")
  => (~call.raised /\ call.val = TRUE)

\* a text without financial term and without ticker, in a history without
\* ticker, that the router gives an intent: only the intent makes it
\* financial
C16_Witness ==
  /\ call.op = "is_financial_query"
  /\ SECTORS_AVAILABLE
  /\ ~call.raised
  /\ call.val = TRUE
  /\ ~FactsOf(call.text).has_financial_term
  /\ RouterAlone.ticker = None
  /\ RouterAlone.val.tag = "market_news"
  /\ call.history # <<>>
  /\ call.reqs # <<>>

\* C17: after the first call of get_all_companies that contacted the
\* provider has returned, every later call returns the same sequence and
\* issues no provider request.  As steps: a call that issues requests leaves
\* the sequence it returns in the cache; a filled cache never changes; and a
\* call that finds the cache filled returns its content without a request.
C17_CompaniesFetchedOnce ==
  [][ /\ (call = NoCall /\ call'.op = "get_all_companies")
         => /\ call'.reqs # <<>>
               => /\ ~COMPANY_CACHE'.is_none
                  /\ COMPANY_CACHE'.companies = call'.val
            /\ ~COMPANY_CACHE.is_none
               => /\ call'.reqs = <<>>
                  /\ call'.val = COMPANY_CACHE.companies
      /\ ~COMPANY_CACHE.is_none => COMPANY_CACHE' = COMPANY_CACHE ]_vars

\* a call after a fetch that came back empty: the empty sequence again,
\* without a request
C17_Witness ==
  /\ call.op = "get_all_companies"
  /\ sectors_api
  /\ ~call.cache_before.is_none
  /\ call.cache_before.companies = <<>>
  /\ call.reqs = <<>>
  /\ call.val = <<>>

\* C18: resolve_query_with_context is a no-op without history: for every
\* text and every history of fewer than 2 turns it returns the text
\* unchanged and requests no completion.
C18_NoHistoryNoOp ==
  (call.op = "resolve_query_with_context" /\ Len(call.history) < 2)
  => /\ ~call.raised
     /\ call.val = call.text
     /\ ~call.requested

\* a history of one turn and a completion service that would have rewritten
\* the text
C18_Witness ==
  /\ call.op = "resolve_query_with_context"
  /\ Len(call.history) = 1
  /\ call.llm = "text"
  /\ call.val = call.text
  /\ ~call.requested

\* C19: when the completion fails during context resolution,
\* resolve_query_with_context returns the original text unchanged, and
\* run_agent goes on to route that original text.
C19_ResolverFailureKeepsText ==
  /\ (/\ call.op = "resolve_query_with_context"
      /\ Len(call.history) >= 2
      /\ call.llm \in {"raise", "none"})
     => /\ ~call.raised
        /\ call.requested
        /\ call.val = call.text
  /\ (/\ call.op = "run_agent"
      /\ Len(call.history) >= 2
      /\ call.resolver \in {"raise", "none"})
     => /\ ~call.raised
        /\ call.resolved = call.text
        /\ SubSeq(call.stages, 1, 3) = <<"resolver", "completion", "router">>

\* the completion raised in the resolver and run_agent still routed the
\* text, ran the tool and returned the narration
C19_Witness ==
  /\ call.op = "run_agent"
  /\ Len(call.history) >= 2
  /\ call.resolver = "raise"
  /\ call.resolved = call.text
  /\ call.intent \in DispatchTags
  /\ InSeq("composer", call.stages)
  /\ call.val = R_narration

\* C20: execute_tool returns absent for every tag that is not in the
\* dispatch table, unknown included, without invoking an operation; it
\* returns absent whenever the dispatched operation raises; and it never
\* raises itself.
C20_ExecuteToolAbsentOnFailure ==
  call.op = "execute_tool" =>
    /\ ~call.raised
    /\ call.intent \notin DispatchTags
       => /\ call.val = None
          /\ call.invoked = ""
          /\ call.reqs = <<>>
    /\ call.raised_inside => call.val = None

\* a dispatched operation raised on the parameters it was handed, with the
\* tools imported
C20_Witness ==
  /\ call.op = "execute_tool"
  /\ SECTORS_AVAILABLE
  /\ call.intent \in DispatchTags
  /\ call.invoked = call.intent
  /\ call.raised_inside
  /\ call.val = None

\* C21: within one handle_user_message call the Intent Router runs at most
\* one pass (one call of detect_intent_and_route), and no pass issues a
\* request to the data provider.
C21_OneRouterPassWithoutIO ==
  call.op = "handle_user_message"
    => /\ call.router_passes <= 1
       /\ call.router_reqs = <<>>

\* a turn that routed twice: once in the classifier, once in run_agent
C21_TwoPasses ==
  /\ call.op = "handle_user_message"
  /\ call.router_passes = 2
  /\ call.router_reqs = <<>>

\* a turn whose routing asked the provider for the company list
C21_RouterRequest ==
  /\ call.op = "handle_user_message"
  /\ call.router_reqs # <<>>

\* the stages of run_agent in the order of section 4.7
StageOrder == <<"resolver", "router", "tool", "composer">>

\* the stages of a run without the completion requests made inside them
StagesRun(stages) == SelectSeq(stages, LAMBDA s : s # "completion")

\* C23: within one run_agent call the stages run in the order resolver,
\* router, tool executor, composer, each at most once; execute_tool runs
\* only after the router returned a tag other than unknown, and the
\* narration completion is requested only after execute_tool returned a
\* present payload that does not start with the error marker.
C23_StagesInFixedOrder ==
  call.op = "run_agent"
    => /\ StagesRun(call.stages)
            = SubSeq(StageOrder, 1, Len(StagesRun(call.stages)))
       /\ \A i \in 1..Len(call.stages) :
            call.stages[i] = "completion"
              => i > 1 /\ call.stages[i - 1] \in {"resolver", "composer"}
       /\ "tool" \in Range(call.stages)
            => call.intent \notin {"unknown", "raised"}
       /\ "composer" \in Range(call.stages)
            => /\ call.tool_result \notin {None, NotRun, <<>>}
               /\ ~startswith_marker(call.tool_result)
               /\ call.narrated = call.tool_result
       /\ "composer" \notin Range(call.stages) => call.narrated = NotRun

\* a run through all four stages, and a run that stopped after the tool
\* because the payload was an error text
C23_Witness ==
  /\ call.op = "run_agent"
  /\ StagesRun(call.stages) = StageOrder
  /\ call.val \notin {None, <<>>}

C23_StoppedAtMarker ==
  /\ call.op = "run_agent"
  /\ StagesRun(call.stages) = <<"resolver", "router", "tool">>
  /\ startswith_marker(call.tool_result)

\* the tags the router returns for a text with a ticker
TickerTags ==
  {"top_market_cap", "quarterly_financials", "company_segments",
   "market_news", "stock_info"}

\* a router call that returned and in which extract_ticker found a ticker
TickerFound ==
  /\ call.op = "detect_intent_and_route"
  /\ ~call.raised
  /\ call.ticker # None

\* no keyword of a more specific rule occurs in the text
NoSpecificRule(text_lower) ==
  /\ ~IsTopRequest(text_lower)
  /\ ~ContainsAny(text_lower, quarterly_words)
  /\ ~ContainsAny(text_lower, segment_words)
  /\ ~ContainsAny(text_lower, news_words)

\* C24: the ticker branch is a catch-all.  Whenever extract_ticker finds a
\* ticker in the text, detect_intent_and_route returns one of top_market_cap,
\* quarterly_financials, company_segments, market_news, stock_info, never
\* unknown, companies_by_index, companies_subsector or subsector_report; and
\* when no more specific rule matches the result is stock_info with that
\* ticker.
C24_TickerBranchCatchAll ==
  TickerFound =>
    /\ call.val.tag \in TickerTags
    /\ NoSpecificRule(lower(call.text))
         => /\ call.val.tag = "stock_info"
            /\ call.val.params.ticker = PyStr(call.ticker)

\* a text with a ticker and the keyword of a general rule (the sub-sector
\* keyword "bank") that is routed to stock_info
C24_Witness ==
  /\ TickerFound
  /\ NoSpecificRule(lower(call.text))
  /\ GeneralBranch(lower(call.text)).tag # "unknown"
  /\ call.val.tag = "stock_info"

\* what detect_intent_and_route gives for the text of the call without any
\* history, started from the given cache
RouterWithoutHistory(cache) ==
  detect_intent_and_route(call.text, <<>>, cache, sectors_api, call.fetch)

\* C25: the intent decision does not depend on the conversation history.
\* For every text and history, detect_intent_and_route returns the tag and
\* parameters it returns without history under the same cache; and a ticker
\* found only in earlier turns makes is_financial_query true without entering
\* the routed tag or parameters.
C25_IntentIgnoresHistory ==
  /\ call.op = "detect_intent_and_route"
       => /\ call.raised = RouterWithoutHistory(call.cache_before).raised
          /\ call.val = RouterWithoutHistory(call.cache_before).val
  /\ (/\ call.op = "is_financial_query"
      /\ ~call.raised
      /\ call.context_ticker # None)
       => /\ call.val = TRUE
          /\ call.intent = RouterWithoutHistory(call.router_cache).val
          /\ PyStr(call.context_ticker)
               \notin {call.intent.params.ticker, call.intent.params.query}

\* a text that only the ticker of an earlier turn makes financial, routed to
\* unknown
C25_Witness ==
  /\ call.op = "is_financial_query"
  /\ ~call.raised
  /\ call.context_ticker # None
  /\ ~FactsOf(call.text).has_financial_term
  /\ call.intent.tag = "unknown"
  /\ call.val = TRUE

\* a router call with a history that names a ticker, on a text without one
C25_RouterWithHistory ==
  /\ call.op = "detect_intent_and_route"
  /\ ~call.raised
  /\ call.history # <<>>
  /\ call.ticker = None
  /\ call.val.tag = "market_news"

\* C26: the Entity Cache is never populated with an empty sequence.  When
\* a fetch on a configured provider yields no company, the cache stays
\* unpopulated, so that a later get_all_companies call fetches again.
C26_CacheNeverHoldsEmpty ==
  /\ ~COMPANY_CACHE.is_none => COMPANY_CACHE.companies # <<>>
  /\ (/\ call.op = "get_all_companies"
      /\ sectors_api
      /\ call.cache_before.is_none
      /\ call.val = <<>>)
       => COMPANY_CACHE.is_none

\* C27: whenever detect_intent_and_route returns quarterly_financials, the
\* quarter parameter is null or an integer in 1..4, the range the quarterly
\* tool documents.
C27_QuarterInDocumentedRange ==
  (/\ call.op = "detect_intent_and_route"
   /\ ~call.raised
   /\ call.val.tag = "quarterly_financials")
  => \/ call.val.params.quarter = PyNone
     \/ /\ call.val.params.quarter.t = "int"
        /\ call.val.params.quarter.n \in 1..4

\* C28: in handle_user_message, whenever the agent path yields no usable
\* reply (None or the empty text), the plain-chat completion is invoked and
\* its result becomes the assistant turn; an empty agent reply is never
\* stored as the assistant turn.
C28_FallbackOnUnusableReply ==
  (/\ call.op = "handle_user_message"
   /\ ~call.raised
   /\ call.use_agent
   /\ call.agent_reply \in {None, <<>>})
  => /\ call.standard_called
     /\ chat_history[Len(chat_history)] = Msg("assistant", call.standard_reply)
     /\ chat_history[Len(chat_history)].content # <<>>

\* the agent path gave None and the plain-chat reply was stored
C28_FallbackTaken ==
  /\ call.op = "handle_user_message"
  /\ call.use_agent
  /\ call.agent_reply = None
  /\ call.standard_called
  /\ chat_history[Len(chat_history)] = Msg("assistant", call.standard_reply)

\* the persisted mapping
Persisted == load_all_chat_sessions(HISTORY_FILE)

\* the last step ran handle_user_message to its end, save included
SaveRan == call.op = "handle_user_message" /\ ~call.raised

\* C22: save_current_session changes only the persisted entry of the
\* current session.  After any sequence of session creations, switches and
\* saves, a save leaves every other session's persisted turn sequence as it
\* was before the save: no session is deleted or truncated by saving
\* another one, and the current session's entry holds its chat history.
C22_SaveKeepsOtherSessions ==
  SaveRan =>
    /\ DOMAIN Persisted
         = DOMAIN call.sessions_before
             \cup {session_state[call.browser].current_session}
    /\ \A name \in DOMAIN call.sessions_before
                     \ {session_state[call.browser].current_session} :
         Persisted[name] = call.sessions_before[name]
    /\ Persisted[session_state[call.browser].current_session]
         = session_state[call.browser].chat_history

\* a save of a session with turns while another session with turns is
\* persisted
C22_Witness ==
  /\ SaveRan
  /\ session_state[call.browser].chat_history # <<>>
  /\ \E name \in DOMAIN call.sessions_before
                   \ {session_state[call.browser].current_session} :
       /\ call.sessions_before[name] # <<>>
       /\ Persisted[name] = call.sessions_before[name]

\* both browser sessions have run save_current_session to its end and
\* neither is inside a script run
BothSaved == \A b \in Browsers : run[b].pc = "idle" /\ run[b].saved

\* C29: when two browser sessions with different current_session names each
\* run save_current_session and their load and write steps interleave, the
\* persisted mapping after both have finished holds the latest turn
\* sequence of both sessions.
C29_NoLostUpdate ==
  (/\ BothSaved
   /\ session_state[Main].current_session # session_state[Peer].current_session)
  => \A b \in Browsers :
       /\ session_state[b].current_session \in DOMAIN Persisted
       /\ Persisted[session_state[b].current_session] = session_state[b].chat_history

\* both saves have finished one after the other and both sessions are
\* persisted
C29_BothPersisted ==
  /\ BothSaved
  /\ session_state[Main].current_session # session_state[Peer].current_session
  /\ \A b \in Browsers :
       /\ session_state[b].current_session \in DOMAIN Persisted
       /\ Persisted[session_state[b].current_session] = session_state[b].chat_history
       /\ session_state[b].chat_history # <<>>

\* C30: create_new_session always adds a session name that was not present
\* before and never changes the persisted turn sequence of an existing
\* session: no previously saved non-empty session is reset to empty.
C30_CreateAddsFreshName ==
  call.op = "create_new_session"
    => /\ call.name \notin DOMAIN call.sessions_before
       /\ \A name \in DOMAIN call.sessions_before :
            /\ name \in DOMAIN Persisted
            /\ Persisted[name] = call.sessions_before[name]

\* a creation that took the name of a persisted session with turns and left
\* it empty
C30_SessionReset ==
  /\ call.op = "create_new_session"
  /\ call.name \in DOMAIN call.sessions_before
  /\ call.sessions_before[call.name] # <<>>
  /\ Persisted[call.name] = <<>>

\* a creation under a name that was not present
C30_FreshName ==
  /\ call.op = "create_new_session"
  /\ call.name \notin DOMAIN call.sessions_before
  /\ \E name \in DOMAIN call.sessions_before : call.sessions_before[name] # <<>>

====
